---- MODULE Spec2Model ----
(***************************************************************************)
(* Model of the stocking bot's core: the Graph time-series store and the   *)
(* Market registry (src/src/market.rs), the StockAlarm registry            *)
(* (src/src/alarm.rs), and the Poller loop update_market                   *)
(* (src/src/trader.rs) running concurrently with the chat commands of      *)
(* src/src/commands/finance.rs.                                            *)
(***************************************************************************)
EXTENDS Integers, Sequences, FiniteSets, TLC

(***************************************************************************)
(* Bounds of the model.                                                    *)
(***************************************************************************)
\* Graph::MAX_QUOTES is 1024 in market.rs:158; the model scales the capacity
\* down so that eviction happens within the explored runs.
MAX_QUOTES == 3
\* Tick times are minutes 1..MaxTime.
MaxTime == 4
\* Tick values are 1..MaxValue, volume deltas 0..MaxVolMove.
MaxValue == 1
MaxVolMove == 1
\* Prices (snapshot values and alarm thresholds) are 1..MaxPrice.
MaxPrice == 3

\* Snapshot values of an index are 1..MaxIndexPrice.
MaxIndexPrice == 1
\* The Poller runs at most MaxCycles fetching cycles, the user issues at
\* most MaxCmds commands.
MaxCycles == 2
MaxCmds == 2
\* In the runs checked with fairness the user issues at most MaxFairCmds
\* commands.
MaxFairCmds == 1
\* The snapshots given to the Market on its own are numbered 1..MaxSnap.
MaxSnap == 2
\* A spawned loop runs at most MaxIter iterations in the runs of main.
MaxIter == 2
\* A detector runs at most MaxDetCycles cycles.
MaxDetCycles == 3
\* Change rates are in tenths of a percent, within -MaxRate..MaxRate.
MaxRate == 26
\* The latest tick's volume delta is at most MaxSpike thousand shares.
MaxSpike == 7
\* format_value is called with the values -MaxFmt..MaxFmt, with those
\* around the powers of ten and with those of its tests, and with a radix of
\* 0..MaxRadix.
MaxFmt == 12
MaxRadix == 20
\* A date of the Quote Source has at most MaxPage history pages.
MaxPage == 1
\* The backfill loop of trader.rs:170 runs while graph_len < 120 and
\* time_jump_cnt <= 10, and a fetch error adds 10 to graph_len
\* (trader.rs:215); the model scales the three numbers down.
MinGraphLen == 1
MaxTimeJump == 1
ErrPenalty == 1
\* In the runs of the backfill loop with retries the target depth is
\* RetryDepth error penalties (12 in the program: 120 / 10).
RetryDepth == 2

Times == 1..MaxTime
Values == 1..MaxValue
VolMoves == 0..MaxVolMove
Prices == 1..MaxPrice
\* The codes given to the alarm registry on its own.
StockCodes == {"S1", "S2"}

VARIABLES
    quotes,      \* Graph.quotes: the Vec<Quote> of one Graph
    seenTimes,   \* history: every tick time ever passed to Graph::update
    lastQuote,   \* history: the argument of the last Graph::update call
    lastFound,   \* history: whether that tick's time was already in the Graph
    alarms,      \* StockAlarm.alarms: code -> sorted Vec<i64>
    lastOp,      \* history: the last call on a registry, its arguments and result
    shares,      \* Market.shares: code -> Share
    mlock,       \* holder of the Market RwLock's write lock across an await
    alock,       \* holder of the StockAlarm RwLock's write lock across an await
    quit,        \* the Poller's rx_quit channel holds a message
    poller,      \* update_market: position and local variables
    setTask,     \* a running set_alarm command: position and arguments
    offTask,     \* a running off_alarm command: position and arguments
    cmdsLeft,    \* commands the user may still issue
    setCount,    \* history: per threshold, insertions by the set_alarm command
    fireCount,   \* history: per threshold, notifications by the Poller
    offRemoved,  \* history: thresholds off_alarm removed, not set again since
    removed,     \* history: codes the user removed and nobody added since
    lostInFlight, \* history: those removed while their snapshot was in flight
    main,        \* main: position and local variables (watch lists, traders)
    tasks,       \* the spawned loops: run state, stop signal, iterations
    sdet,        \* notify_market_state: position and local variables
    rdet,        \* notify_change_rate: position and local variables
    vdet,        \* notify_high_trading_vol: position and local variables
    fmt,         \* one call of format_value: its arguments and its outcome
    avg,         \* one call of Graph::avg_trading_vol_move: arguments, outcome
    lk,          \* the two RwLocks (holders, queue) and each task's position
    sn,          \* fetch order of the snapshots in flight and in the Market
    notes        \* history: what a detector observed and sent in its cycle

graphVars == <<quotes, seenTimes, lastQuote, lastFound>>
\* The variables of main and of the detector loops.
detVars == <<main, tasks, sdet, rdet, vdet, fmt, avg, lk, sn, notes>>
alarmVars == <<alarms, lastOp>>
\* The variables of the single-component models.
compVars == <<quotes, seenTimes, lastQuote, lastFound, lastOp, detVars>>
marketVars == <<shares, mlock>>
pollerVars == <<poller, quit>>
cmdVars == <<setTask, offTask, cmdsLeft, alock>>
histVars == <<setCount, fireCount, offRemoved, removed, lostInFlight>>
sysVars == <<shares, mlock, alock, quit, poller, setTask, offTask, cmdsLeft,
             setCount, fireCount, offRemoved, removed, lostInFlight, detVars>>
vars == <<quotes, seenTimes, lastQuote, lastFound, alarms, lastOp, shares,
          mlock, alock, quit, poller, setTask, offTask, cmdsLeft, setCount,
          fireCount, offRemoved, removed, lostInFlight, main, tasks, sdet,
          rdet, vdet, fmt, avg, lk, sn, notes>>

(***************************************************************************)
(* Sequence helpers (Vec::insert, Vec::remove).                            *)
(***************************************************************************)
VecInsert(v, pos, x) ==
    [i \in 1..(Len(v) + 1) |->
        IF i < pos THEN v[i] ELSE IF i = pos THEN x ELSE v[i - 1]]

VecRemove(v, pos) ==
    [i \in 1..(Len(v) - 1) |-> IF i < pos THEN v[i] ELSE v[i + 1]]

Min2(a, b) == IF a <= b THEN a ELSE b
Max2(a, b) == IF a >= b THEN a ELSE b

(***************************************************************************)
(* Graph (market.rs:153-198).                                              *)
(***************************************************************************)
Quote(t, v, m) == [time |-> t, value |-> v, trading_vol_move |-> m]
QuoteInputs == {Quote(t, v, m) : t \in Times, v \in Values, m \in VolMoves}
NoQuote == [time |-> 0, value |-> 0, trading_vol_move |-> 0]

\* slice::binary_search_by_key over positions lo..hi-1 (1-based); the result
\* is Ok(pos) as [found |-> TRUE] or Err(pos) as [found |-> FALSE].
RECURSIVE BinarySearchFrom(_, _, _, _)
BinarySearchFrom(keys, key, lo, hi) ==
    IF lo >= hi THEN [found |-> FALSE, pos |-> lo]
    ELSE LET mid == lo + ((hi - lo) \div 2)
         IN IF keys[mid] = key THEN [found |-> TRUE, pos |-> mid]
            ELSE IF keys[mid] < key THEN BinarySearchFrom(keys, key, mid + 1, hi)
            ELSE BinarySearchFrom(keys, key, lo, mid)

BinarySearch(keys, key) == BinarySearchFrom(keys, key, 1, Len(keys) + 1)

QuoteTimes(qs) == [i \in 1..Len(qs) |-> qs[i].time]

\* A bug variant of the eviction: drops the newest tick instead of the oldest.
GraphEvictNewest(qs) ==
    IF Len(qs) > MAX_QUOTES THEN VecRemove(qs, Len(qs)) ELSE qs

\* market.rs:171-173
GraphEvict(qs) ==
    IF Len(qs) > MAX_QUOTES THEN VecRemove(qs, 1) ELSE qs

\* A bug variant of the placement: always appends instead of searching.
GraphPlaceAppend(qs, quote) == Append(qs, quote)

\* A bug variant of the placement: an exact match is inserted, not replaced.
GraphPlaceNoReplace(qs, quote) ==
    VecInsert(qs, BinarySearch(QuoteTimes(qs), quote.time).pos, quote)

\* market.rs:165-169
GraphPlace(qs, quote) ==
    LET r == BinarySearch(QuoteTimes(qs), quote.time)
    IN IF r.found THEN [qs EXCEPT ![r.pos] = quote]
       ELSE VecInsert(qs, r.pos, quote)

\* Graph::update, market.rs:164-174
GraphUpdate(qs, quote) == GraphEvict(GraphPlace(qs, quote))

GraphLen(qs) == Len(qs)

(***************************************************************************)
(* StockAlarm (alarm.rs:3-48).  The HashMap is a function whose domain is  *)
(* the set of codes that have an entry.                                    *)
(***************************************************************************)
Elems(v) == {v[i] : i \in 1..Len(v)}

\* The thresholds of a code, empty when the code has no entry
\* (get_alarms(code) flattened).
AlarmsOf(al, code) == IF code \in DOMAIN al THEN al[code] ELSE <<>>

\* StockAlarm::new, alarm.rs:8-12
AlarmNew == <<>>

\* StockAlarm::codes, alarm.rs:41-43
AlarmCodes(al) == DOMAIN al

\* StockAlarm::get_alarms, alarm.rs:45-47: None is <<>>, Some(v) is <<v>>.
GetAlarms(al, code) == IF code \in DOMAIN al THEN <<al[code]>> ELSE <<>>

\* A bug variant of set_alarm: inserts without the membership test.
AlarmSetNoDedup(al, code, target) ==
    IF code \in DOMAIN al
    THEN [al EXCEPT ![code] = VecInsert(@, BinarySearch(@, target).pos, target)]
    ELSE [c \in DOMAIN al \cup {code} |->
            IF c = code THEN <<target>> ELSE al[c]]

\* StockAlarm::set_alarm, alarm.rs:14-24
AlarmSet(al, code, target) ==
    IF code \in DOMAIN al
    THEN LET r == BinarySearch(al[code], target)
         IN IF r.found THEN al
            ELSE [al EXCEPT ![code] = VecInsert(@, r.pos, target)]
    ELSE [c \in DOMAIN al \cup {code} |->
            IF c = code THEN <<target>> ELSE al[c]]

\* A bug variant of remove_alarm: keeps the entry of a code whose last
\* threshold was removed.
AlarmRemoveKeepEmpty(al, code, target) ==
    IF code \in DOMAIN al /\ BinarySearch(al[code], target).found
    THEN [alarms |-> [al EXCEPT ![code] =
                        VecRemove(@, BinarySearch(@, target).pos)],
          removed |-> TRUE]
    ELSE [alarms |-> al, removed |-> FALSE]

\* StockAlarm::remove_alarm, alarm.rs:26-39: the registry after the call and
\* the returned bool.
AlarmRemove(al, code, target) ==
    IF code \in DOMAIN al
    THEN LET r == BinarySearch(al[code], target)
             v == VecRemove(al[code], r.pos)
         IN IF r.found
            THEN [alarms |-> IF Len(v) = 0
                             THEN [c \in DOMAIN al \ {code} |-> al[c]]
                             ELSE [al EXCEPT ![code] = v],
                  removed |-> TRUE]
            ELSE [alarms |-> al, removed |-> FALSE]
    ELSE [alarms |-> al, removed |-> FALSE]

(***************************************************************************)
(* Market (market.rs:24-143).  A Share is a record of the fields of        *)
(* market.rs:13-22; an Index and a Stock are records of the fields of      *)
(* naver/model.rs that the Market reads.                                   *)
(* Option values: None is <<>>, Some(x) is <<x>>.                          *)
(***************************************************************************)
None == <<>>
Some(x) == <<x>>

\* Stock::change_value, naver/model.rs:109-115: the sign comes from the
\* change type (4 and 5 are falls).
StockChangeValue(stock) ==
    IF stock.change_type = "4" \/ stock.change_type = "5"
    THEN -stock.change_value ELSE stock.change_value

\* Stock::change_rate, naver/model.rs:118-124
StockChangeRate(stock) ==
    IF stock.change_type = "4" \/ stock.change_type = "5"
    THEN -stock.change_rate ELSE stock.change_rate

\* The snapshot fields of a Share as add_or_update_index assigns them
\* (market.rs:49-54, 60-65).
IndexFields(code, index) ==
    [name |-> code, state |-> index.state, value |-> index.now_value,
     change_value |-> index.change_value, change_rate |-> index.change_rate,
     trading_volume |-> index.trading_volume]

\* The snapshot fields of a Share as add_or_update_stock assigns them
\* (market.rs:75-80, 86-91).
StockFields(stock) ==
    [name |-> stock.name, state |-> stock.state, value |-> stock.now_value,
     change_value |-> StockChangeValue(stock),
     change_rate |-> StockChangeRate(stock),
     trading_volume |-> stock.trading_volume]

\* A Share of the given kind, snapshot fields and Graph.
Share(kind, f, graph) ==
    [kind |-> kind, name |-> f.name, state |-> f.state, value |-> f.value,
     change_value |-> f.change_value, change_rate |-> f.change_rate,
     trading_volume |-> f.trading_volume, graph |-> graph]

\* MarketState, naver/model.rs:8-16
MarketStates == {"PREOPEN", "CLOSE", "OPEN"}

\* Market::new, market.rs:29-33
MarketNew == <<>>

\* Market::contains, market.rs:140-142
MarketContains(sh, code) == code \in DOMAIN sh

\* Market::share_codes_with_kind, market.rs:39-44
ShareCodesWithKind(sh) == {<<c, sh[c].kind>> : c \in DOMAIN sh}

\* Market::get_share(code).map(|share| share.value), trader.rs:110
ShareValue(sh, code) == IF code \in DOMAIN sh THEN Some(sh[code].value) ELSE None

\* Market::get_share(code).map(|s| s.graph.len()).unwrap_or(0), trader.rs:202
ShareGraphLen(sh, code) == IF code \in DOMAIN sh THEN GraphLen(sh[code].graph) ELSE 0

\* A bug variant of the overwrite: an existing entry keeps its old name.
AddOrUpdateKeepName(sh, code, kind, f) ==
    IF code \in DOMAIN sh
    THEN [sh EXCEPT ![code] =
            Share(sh[code].kind, [f EXCEPT !.name = sh[code].name],
                  sh[code].graph)]
    ELSE [c \in DOMAIN sh \cup {code} |->
            IF c = code THEN Share(kind, f, <<>>) ELSE sh[c]]

\* A variant of the overwrite: an existing entry takes the kind of the call.
AddOrUpdateSetKind(sh, code, kind, f) ==
    IF code \in DOMAIN sh
    THEN [sh EXCEPT ![code] = Share(kind, f, sh[code].graph)]
    ELSE [c \in DOMAIN sh \cup {code} |->
            IF c = code THEN Share(kind, f, <<>>) ELSE sh[c]]

\* The insert-or-overwrite shared by add_or_update_index (market.rs:46-70)
\* and add_or_update_stock (market.rs:72-96): an existing entry keeps its
\* kind and its Graph.
AddOrUpdate(sh, code, kind, f) ==
    IF code \in DOMAIN sh
    THEN [sh EXCEPT ![code] = Share(sh[code].kind, f, sh[code].graph)]
    ELSE [c \in DOMAIN sh \cup {code} |->
            IF c = code THEN Share(kind, f, <<>>) ELSE sh[c]]

\* Market::add_or_update_index, market.rs:46-70
AddOrUpdateIndex(sh, code, index) ==
    AddOrUpdate(sh, code, "Index", IndexFields(code, index))

\* Market::add_or_update_stock, market.rs:72-96
AddOrUpdateStock(sh, code, stock) ==
    AddOrUpdate(sh, code, "Stock", StockFields(stock))

\* Market::remove_share, market.rs:136-138
RemoveShare(sh, code) == [c \in DOMAIN sh \ {code} |-> sh[c]]

\* Graph::update over the quotes of one page, in page order.
RECURSIVE GraphUpdateAll(_, _)
GraphUpdateAll(qs, page) ==
    IF page = <<>> THEN qs
    ELSE GraphUpdateAll(GraphUpdate(qs, Head(page)), Tail(page))

\* Market::update_index_graph (market.rs:98-113) and update_stock_graph
\* (market.rs:115-130): only an existing entry is updated.
UpdateGraph(sh, code, kind, page) ==
    IF code \in DOMAIN sh
    THEN [sh EXCEPT ![code].graph = GraphUpdateAll(@, page)]
    ELSE sh

\* The Index and the Stock the Quote Source answers with price now_value in
\* the runs of the Poller, where the other fields do not vary.
IndexOf(now_value) ==
    [state |-> "OPEN", now_value |-> now_value, change_value |-> 0,
     change_rate |-> 0, trading_volume |-> 0]

StockOf(now_value) ==
    [name |-> "stock", state |-> "OPEN", now_value |-> now_value,
     change_type |-> "3", change_value |-> 0, change_rate |-> 0,
     trading_volume |-> 0]

\* add_or_update_index / add_or_update_stock by the kind of the request.
AddOrUpdateKind(sh, code, kind, now_value) ==
    IF kind = "Index" THEN AddOrUpdateIndex(sh, code, IndexOf(now_value))
    ELSE AddOrUpdateStock(sh, code, StockOf(now_value))

\* A bug variant of the write-back: no contains re-check.
WriteBackUnchecked(sh, code, kind, now_value) ==
    AddOrUpdateKind(sh, code, kind, now_value)

\* The Poller's snapshot write-back under the write lock, trader.rs:95-99
\* (index) and trader.rs:152-156 (stock).
WriteBack(sh, code, kind, now_value) ==
    IF MarketContains(sh, code)
    THEN AddOrUpdateKind(sh, code, kind, now_value)
    ELSE sh

(***************************************************************************)
(* The Quote Source (naver::api), an input of the model.                   *)
(***************************************************************************)
\* The codes of the system: the Poller's two seed indices and one stock.
SeedCodes == <<"KOSPI", "KOSDAQ">>
TheStock == "S1"
UserCodes == {"KOSPI", TheStock}

\* api::get_index / api::get_stock: Err is None, Ok(snapshot) is Some(value).
SnapshotResults(kind) ==
    {None} \cup {Some(v) : v \in IF kind = "Index" THEN 1..MaxIndexPrice ELSE Prices}

\* The minute of the tick on page page_num of the date time_jump_cnt days back.
PageTime(time_jump_cnt, page_num) ==
    (MaxTimeJump + 1 - time_jump_cnt) * MaxPage + (MaxPage - page_num) + 1

\* api::get_index_quotes / api::get_stock_quotes: Err is None, Ok(page) is
\* Some([quotes, is_last]); the last page of a date is at most page MaxPage.
HistoryResults(time_jump_cnt, page_num) ==
    {None} \cup
    {Some([quotes |-> <<Quote(PageTime(time_jump_cnt, page_num), 1, 0)>>,
           is_last |-> l]) :
        l \in IF page_num >= MaxPage THEN {TRUE} ELSE BOOLEAN}

(***************************************************************************)
(* The alarm crossing check of update_market.                              *)
(***************************************************************************)
\* A bug variant of the crossing condition: strict on the new value.
CrossedStrict(prev_value, target_value, now_value) ==
    \/ (prev_value <= target_value /\ target_value < now_value)
    \/ (prev_value >= target_value /\ target_value > now_value)

\* trader.rs:120-123
Crossed(prev_value, target_value, now_value) ==
    \/ (prev_value <= target_value /\ target_value <= now_value)
    \/ (prev_value >= target_value /\ target_value >= now_value)

\* trader.rs:114-129: the thresholds pushed to executed_alarms, in order.
ExecutedAlarms(al, code, prev_value, now_value) ==
    IF prev_value = None \/ GetAlarms(al, code) = None THEN <<>>
    ELSE SelectSeq(al[code], LAMBDA t : Crossed(prev_value[1], t, now_value))

\* A bug variant of the removal: the fired thresholds stay in the registry.
RemoveExecutedNone(al, code, executed) == al

\* trader.rs:135-138: remove_alarm for each executed threshold.
RECURSIVE RemoveExecuted(_, _, _)
RemoveExecuted(al, code, executed) ==
    IF executed = <<>> THEN al
    ELSE RemoveExecuted(AlarmRemove(al, code, Head(executed)).alarms,
                        code, Tail(executed))

NoOp == [op |-> "none", code |-> "", price |-> 0, had |-> FALSE, ret |-> FALSE]

(***************************************************************************)
(* update_market (trader.rs:22-226), one action per await-delimited step.  *)
(* A step that takes a lock and releases it before the next await is one   *)
(* action guarded by the lock being free; a lock held across an await is   *)
(* recorded in mlock / alock.                                              *)
(***************************************************************************)
\* trader.rs:63-65: the days and hours of the market-hours window.
WorkDays == 5
OpenHour == 8
CloseHour == 17

\* A variant of the window that includes the closing hour.
OnWorkThroughClose(now) ==
    now[1] <= WorkDays /\ now[2] >= OpenHour /\ now[2] <= CloseHour

\* trader.rs:61-65: on_work, true from Monday to Friday with the hour in
\* [8, 17).
OnWork(now) ==
    now[1] <= WorkDays /\ now[2] >= OpenHour /\ now[2] < CloseHour

\* The local clock read at the top of a cycle: the day of the week counted
\* from Monday = 1 and the hour; NoClock when no reading is in use.
NoClock == <<0, 0>>
Weekdays == {WorkDays, WorkDays + 1}
Hours == {OpenHour - 1, OpenHour, CloseHour - 1, CloseHour}
Clocks == Weekdays \X Hours

PollerStart ==
    [pc |-> "seed_check", seeds |-> SeedCodes, prev_on_work |-> FALSE,
     cycle |-> 0, todo |-> {}, code |-> "", kind |-> "", fetched |-> None,
     prev_value |-> None, executed |-> <<>>, time_jump_cnt |-> 0,
     page_num |-> 1, graph_len |-> 0, is_last |-> FALSE,
     min_graph_len |-> MinGraphLen, delivered |-> "none", now |-> NoClock]

Idle == [pc |-> "idle", target |-> 0, name |-> FALSE]

ZeroCount == [t \in Prices |-> 0]

\* The seed loop moves on to the next seed or enters the main loop.
AfterSeed(p) ==
    [p EXCEPT !.seeds = Tail(@),
              !.pc = IF Len(p.seeds) > 1 THEN "seed_check" ELSE "loop_top",
              !.fetched = None]

\* trader.rs:36-39: does the market hold the seed index?
PSeedCheck ==
    /\ poller.pc = "seed_check"
    /\ mlock = "free"
    /\ poller' = IF MarketContains(shares, Head(poller.seeds))
                 THEN AfterSeed(poller)
                 ELSE [poller EXCEPT !.pc = "seed_fetch"]
    /\ UNCHANGED <<compVars, shares, mlock, quit, cmdVars, histVars, alarms>>

\* trader.rs:42-44: api::get_index answers; an error panics the task.
PSeedFetched ==
    /\ poller.pc = "seed_fetch"
    /\ \E r \in SnapshotResults("Index") :
         poller' = IF r = None THEN [poller EXCEPT !.pc = "panicked"]
                   ELSE [poller EXCEPT !.pc = "seed_write", !.fetched = r]
    /\ UNCHANGED <<compVars, shares, mlock, quit, cmdVars, histVars, alarms>>

\* trader.rs:46-47: the seed is written without a contains check.
PSeedWrite ==
    /\ poller.pc = "seed_write"
    /\ mlock = "free"
    /\ shares' = AddOrUpdateIndex(shares, Head(poller.seeds),
                                  IndexOf(poller.fetched[1]))
    /\ poller' = AfterSeed(poller)
    /\ removed' = removed \ {Head(poller.seeds)}
    /\ lostInFlight' = lostInFlight \ {Head(poller.seeds)}
    /\ UNCHANGED <<compVars, mlock, quit, cmdVars, alarms, setCount, fireCount,
                   offRemoved>>

\* A bug variant of the loop top: the stop check comes after the
\* market-hours check, so it is skipped outside market hours.
PLoopTopHoursFirst ==
    /\ poller.pc = "loop_top"
    /\ \E now \in Clocks :
         LET on_work == OnWork(now)
         IN /\ on_work => poller.cycle < MaxCycles
            /\ IF on_work /\ quit
               THEN /\ poller' = [poller EXCEPT !.pc = "exit", !.now = NoClock]
                    /\ quit' = FALSE
               ELSE /\ poller' = [poller EXCEPT
                                    !.prev_on_work = on_work,
                                    !.now = now,
                                    !.pc = IF on_work THEN "list" ELSE "loop_top"]
                    /\ UNCHANGED quit
    /\ UNCHANGED <<compVars, shares, mlock, cmdVars, histVars, alarms>>

\* trader.rs:55-76: the stop check and the market-hours check.
PLoopTop ==
    /\ poller.pc = "loop_top"
    /\ IF quit
       THEN /\ poller' = [poller EXCEPT !.pc = "exit", !.now = NoClock]
            /\ quit' = FALSE
       ELSE /\ \E now \in Clocks :
                 LET on_work == OnWork(now)
                 IN /\ on_work => poller.cycle < MaxCycles
                    /\ poller' = [poller EXCEPT
                                    !.prev_on_work = on_work,
                                    !.now = now,
                                    !.pc = IF on_work THEN "list" ELSE "loop_top"]
            /\ UNCHANGED quit
    /\ UNCHANGED <<compVars, shares, mlock, cmdVars, histVars, alarms>>

\* trader.rs:89, 92, 105, 222: the loop over the codes of the cycle moves
\* on: the next code (HashMap order is arbitrary) with its snapshot request
\* issued, or the sleep that ends the cycle.
NextCode(p) ==
    IF p.todo = {}
    THEN {[p EXCEPT !.pc = "loop_top", !.code = "", !.kind = "",
                    !.fetched = None, !.graph_len = 0, !.time_jump_cnt = 0,
                    !.page_num = 1]}
    ELSE {[p EXCEPT !.todo = @ \ {ck}, !.code = ck[1], !.kind = ck[2],
                    !.fetched = None, !.graph_len = 0, !.time_jump_cnt = 0,
                    !.page_num = 1, !.pc = "snap"] : ck \in p.todo}

\* A variant of the loop test that fetches once more at the target depth.
BackfillOrNextDeep(p) ==
    IF p.graph_len <= p.min_graph_len /\ p.time_jump_cnt <= MaxTimeJump
    THEN {[p EXCEPT !.pc = "bf"]}
    ELSE NextCode(p)

\* trader.rs:170: the test of the backfill loop.  The target depth (120 in
\* the program) is the field min_graph_len: MinGraphLen, or more in the runs
\* of the backfill loop with retries.
BackfillOrNext(p) ==
    IF p.graph_len < p.min_graph_len /\ p.time_jump_cnt <= MaxTimeJump
    THEN {[p EXCEPT !.pc = "bf"]}
    ELSE NextCode(p)

\* trader.rs:79-87: the codes of this cycle, read under the read lock.
PList ==
    /\ poller.pc = "list"
    /\ mlock = "free"
    /\ poller' \in NextCode([poller EXCEPT !.todo = ShareCodesWithKind(shares),
                                          !.cycle = @ + 1, !.now = NoClock])
    /\ UNCHANGED <<compVars, shares, mlock, quit, cmdVars, histVars, alarms>>

\* trader.rs:163-170: the locals of the backfill loop and its first test.
EnterBackfill(p) ==
    BackfillOrNext([p EXCEPT !.prev_value = None, !.executed = <<>>,
                             !.time_jump_cnt = 0, !.page_num = 1,
                             !.graph_len = 0, !.is_last = FALSE])

\* A bug variant of the snapshot step: a failed fetch is unwrapped and ends
\* the task.
PSnapFetchedUnwrap ==
    /\ poller.pc = "snap"
    /\ \E r \in SnapshotResults(poller.kind) :
         poller' = IF r = None THEN [poller EXCEPT !.pc = "panicked"]
                   ELSE [poller EXCEPT
                           !.fetched = r,
                           !.pc = IF poller.kind = "Index" THEN "idx_write"
                                  ELSE "read_prev"]
    /\ UNCHANGED <<compVars, shares, mlock, quit, cmdVars, histVars, alarms>>

\* trader.rs:92-93, 101, 105-106, 158: the snapshot answers.
PSnapFetched ==
    /\ poller.pc = "snap"
    /\ \E r \in SnapshotResults(poller.kind) :
         IF r = None THEN poller' \in EnterBackfill(poller)
         ELSE poller' = [poller EXCEPT
                           !.fetched = r,
                           !.pc = IF poller.kind = "Index" THEN "idx_write"
                                  ELSE "read_prev"]
    /\ UNCHANGED <<compVars, shares, mlock, quit, cmdVars, histVars, alarms>>

\* trader.rs:95-99
PIndexWrite ==
    /\ poller.pc = "idx_write"
    /\ mlock = "free"
    /\ shares' = WriteBack(shares, poller.code, "Index", poller.fetched[1])
    /\ poller' \in EnterBackfill(poller)
    /\ UNCHANGED <<compVars, mlock, quit, cmdVars, histVars, alarms>>

\* trader.rs:108-111
PReadPrev ==
    /\ poller.pc = "read_prev"
    /\ mlock = "free"
    /\ poller' = [poller EXCEPT !.prev_value = ShareValue(shares, poller.code),
                                !.pc = "check"]
    /\ UNCHANGED <<compVars, shares, mlock, quit, cmdVars, histVars, alarms>>

\* trader.rs:114-132: the crossing check under the alarm read lock.
PCheckAlarms ==
    /\ poller.pc = "check"
    /\ poller.prev_value # None => alock = "free"
    /\ LET ex == ExecutedAlarms(alarms, poller.code, poller.prev_value,
                                poller.fetched[1])
       IN poller' = [poller EXCEPT !.executed = ex,
                                   !.pc = IF ex # <<>> THEN "remove"
                                          ELSE "stock_write"]
    /\ UNCHANGED <<compVars, shares, mlock, quit, cmdVars, histVars, alarms>>

\* trader.rs:134-139: the removal under the alarm write lock.
PRemoveAlarms ==
    /\ poller.pc = "remove"
    /\ alock = "free"
    /\ alarms' = RemoveExecuted(alarms, poller.code, poller.executed)
    /\ poller' = [poller EXCEPT !.pc = "send"]
    /\ UNCHANGED <<compVars, shares, mlock, quit, cmdVars, histVars>>

\* The outcomes of posting a message to the chat.
Deliveries == {"ok", "err"}

\* A variant of the send step that puts the thresholds back when the post
\* fails.
PSendAlarmRearm ==
    /\ poller.pc = "send"
    /\ fireCount' = [t \in Prices |->
                       IF t \in Elems(poller.executed)
                       THEN fireCount[t] + 1 ELSE fireCount[t]]
    /\ \E d \in Deliveries :
         /\ poller' = [poller EXCEPT !.pc = "stock_write", !.delivered = d]
         /\ alarms' = IF d = "err" /\ Len(poller.executed) > 0
                      THEN AlarmSet(alarms, poller.code, poller.executed[1])
                      ELSE alarms
    /\ UNCHANGED <<compVars, shares, mlock, quit, cmdVars,
                   setCount, offRemoved, removed, lostInFlight>>

\* trader.rs:140-149, 559-593: send_alarm posts the executed thresholds; an
\* error of the post is logged and nothing else follows from it.
PSendAlarm ==
    /\ poller.pc = "send"
    /\ fireCount' = [t \in Prices |->
                       IF t \in Elems(poller.executed)
                       THEN fireCount[t] + 1 ELSE fireCount[t]]
    /\ \E d \in Deliveries :
         poller' = [poller EXCEPT !.pc = "stock_write", !.delivered = d]
    /\ UNCHANGED <<compVars, shares, mlock, quit, cmdVars, alarms,
                   setCount, offRemoved, removed, lostInFlight>>

\* trader.rs:152-156
PStockWrite ==
    /\ poller.pc = "stock_write"
    /\ mlock = "free"
    /\ shares' = WriteBack(shares, poller.code, "Stock", poller.fetched[1])
    /\ poller' \in EnterBackfill([poller EXCEPT !.delivered = "none"])
    /\ UNCHANGED <<compVars, mlock, quit, cmdVars, histVars, alarms>>

\* trader.rs:172-183, 190: the history request is issued with the Market
\* write lock held.
PBackfillLock ==
    /\ poller.pc = "bf"
    /\ mlock = "free"
    /\ mlock' = "poller"
    /\ poller' = [poller EXCEPT !.pc = "bf_fetch"]
    /\ UNCHANGED <<compVars, shares, quit, cmdVars, histVars, alarms>>

\* A variant of the history step whose fetch error leaves graph_len alone.
PBackfillFetchedNoPenalty ==
    /\ poller.pc = "bf_fetch"
    /\ \E r \in HistoryResults(poller.time_jump_cnt, poller.page_num) :
         IF r = None
         THEN /\ poller' \in BackfillOrNext(poller)
              /\ UNCHANGED shares
         ELSE /\ shares' = UpdateGraph(shares, poller.code, poller.kind,
                                       r[1].quotes)
              /\ poller' = [poller EXCEPT !.is_last = r[1].is_last,
                                          !.pc = "bf_len"]
    /\ mlock' = "free"
    /\ UNCHANGED <<compVars, quit, cmdVars, histVars, alarms>>

\* trader.rs:183-197, 213-217: the history page answers; the Graph is
\* updated and the write lock released.
PBackfillFetched ==
    /\ poller.pc = "bf_fetch"
    /\ \E r \in HistoryResults(poller.time_jump_cnt, poller.page_num) :
         IF r = None
         THEN /\ poller' \in BackfillOrNext(
                               [poller EXCEPT !.graph_len = @ + ErrPenalty])
              /\ UNCHANGED shares
         ELSE /\ shares' = UpdateGraph(shares, poller.code, poller.kind,
                                       r[1].quotes)
              /\ poller' = [poller EXCEPT !.is_last = r[1].is_last,
                                          !.pc = "bf_len"]
    /\ mlock' = "free"
    /\ UNCHANGED <<compVars, quit, cmdVars, histVars, alarms>>

\* trader.rs:200-211: the Graph length under the read lock, then the next
\* page or the previous date.
PBackfillLen ==
    /\ poller.pc = "bf_len"
    /\ mlock = "free"
    /\ poller' \in BackfillOrNext(
                     [poller EXCEPT
                        !.graph_len = ShareGraphLen(shares, poller.code),
                        !.page_num = IF poller.is_last THEN 1 ELSE @ + 1,
                        !.time_jump_cnt = IF poller.is_last THEN @ + 1 ELSE @,
                        !.is_last = FALSE])
    /\ UNCHANGED <<compVars, shares, mlock, quit, cmdVars, histVars, alarms>>

\* main.rs:239-245: the stop signal, sent once the chat client has stopped,
\* after which no new command arrives.
SendQuit ==
    /\ ~quit
    /\ poller.pc \notin {"exit", "panicked"}
    /\ quit' = TRUE
    /\ cmdsLeft' = 0
    /\ UNCHANGED <<compVars, shares, mlock, alock, poller, setTask, offTask, histVars,
                   alarms>>

(***************************************************************************)
(* The commands of finance.rs that write the registries.                   *)
(***************************************************************************)
\* set_alarm, finance.rs:219-237: the arguments and the name lookup under
\* the Market read lock.
SetAlarmLookup ==
    /\ setTask.pc = "idle"
    /\ cmdsLeft > 0
    /\ mlock = "free"
    /\ \E target \in Prices :
         setTask' = [pc |-> "apply", target |-> target,
                     name |-> MarketContains(shares, TheStock)]
    /\ cmdsLeft' = cmdsLeft - 1
    /\ UNCHANGED <<compVars, shares, mlock, alock, pollerVars, offTask, histVars, alarms>>

\* set_alarm, finance.rs:239-256: a tracked code gets the threshold under
\* the alarm write lock, which is held while the reply is sent.
SetAlarmApply ==
    /\ setTask.pc = "apply"
    /\ IF setTask.name
       THEN /\ alock = "free"
            /\ alock' = "set_alarm"
            /\ alarms' = AlarmSet(alarms, TheStock, setTask.target)
            /\ setCount' = [setCount EXCEPT ![setTask.target] =
                              IF setTask.target \in Elems(AlarmsOf(alarms, TheStock))
                              THEN @ ELSE @ + 1]
            /\ offRemoved' = offRemoved \ {setTask.target}
            /\ setTask' = [setTask EXCEPT !.pc = "reply"]
       ELSE /\ setTask' = Idle
            /\ UNCHANGED <<alock, alarms, setCount, offRemoved>>
    /\ UNCHANGED <<compVars, shares, mlock, pollerVars, offTask, cmdsLeft, fireCount,
                   removed, lostInFlight>>

\* set_alarm, finance.rs:244-258: the reply is sent, the lock dropped.
SetAlarmReplied ==
    /\ setTask.pc = "reply"
    /\ setTask' = Idle
    /\ alock' = "free"
    /\ UNCHANGED <<compVars, shares, mlock, pollerVars, offTask, cmdsLeft, histVars, alarms>>

\* off_alarm, finance.rs:265-283
OffAlarmLookup ==
    /\ offTask.pc = "idle"
    /\ cmdsLeft > 0
    /\ mlock = "free"
    /\ \E target \in Prices :
         offTask' = [pc |-> "apply", target |-> target,
                     name |-> MarketContains(shares, TheStock)]
    /\ cmdsLeft' = cmdsLeft - 1
    /\ UNCHANGED <<compVars, shares, mlock, alock, pollerVars, setTask, histVars, alarms>>

\* off_alarm, finance.rs:285-311: remove_alarm under the alarm write lock,
\* which is held while the reply is sent.
OffAlarmApply ==
    /\ offTask.pc = "apply"
    /\ alock = "free"
    /\ alock' = "off_alarm"
    /\ LET r == AlarmRemove(alarms, TheStock, offTask.target)
       IN /\ alarms' = r.alarms
          /\ offRemoved' = IF r.removed THEN offRemoved \cup {offTask.target}
                           ELSE offRemoved
    /\ offTask' = [offTask EXCEPT !.pc = "reply"]
    /\ UNCHANGED <<compVars, shares, mlock, pollerVars, setTask, cmdsLeft, setCount,
                   fireCount, removed, lostInFlight>>

\* off_alarm, finance.rs:290-313
OffAlarmReplied ==
    /\ offTask.pc = "reply"
    /\ offTask' = Idle
    /\ alock' = "free"
    /\ UNCHANGED <<compVars, shares, mlock, pollerVars, setTask, cmdsLeft, histVars, alarms>>

\* show_index / show_stock with the add reaction, finance.rs:84-88 and
\* 177-181: the fetched snapshot is written under the Market write lock.
UserAdd ==
    /\ cmdsLeft > 0
    /\ mlock = "free"
    /\ \E code \in UserCodes :
         /\ \E r \in SnapshotResults(IF code = TheStock THEN "Stock" ELSE "Index") \ {None} :
              shares' = IF code = TheStock
                        THEN AddOrUpdateStock(shares, code, StockOf(r[1]))
                        ELSE AddOrUpdateIndex(shares, code, IndexOf(r[1]))
         /\ removed' = removed \ {code}
         /\ lostInFlight' = lostInFlight \ {code}
    /\ cmdsLeft' = cmdsLeft - 1
    /\ UNCHANGED <<compVars, mlock, alock, pollerVars, setTask, offTask, alarms,
                   setCount, fireCount, offRemoved>>

\* show_index / show_stock with the delete reaction, finance.rs:89-91 and
\* 182-184.
UserRemove ==
    /\ cmdsLeft > 0
    /\ mlock = "free"
    /\ \E code \in UserCodes :
         /\ shares' = RemoveShare(shares, code)
         /\ removed' = IF MarketContains(shares, code)
                       THEN removed \cup {code} ELSE removed
         /\ lostInFlight' =
              IF MarketContains(shares, code) /\ poller.code = code
                 /\ poller.pc = "snap"
              THEN lostInFlight \cup {code} ELSE lostInFlight
    /\ cmdsLeft' = cmdsLeft - 1
    /\ UNCHANGED <<compVars, mlock, alock, pollerVars, setTask, offTask, alarms,
                   setCount, fireCount, offRemoved>>

\* The state of the registries when update_market is spawned (main.rs:103-
\* 178): the watch list is loaded, here the stock and one of the two seeds.
\* main and the detectors before they run.
MainOff == [pc |-> "off", index_lines |-> <<>>, stock_lines |-> <<>>,
            traders |-> <<>>]
SDetOff == [pc |-> "off"]
RDetOff == [pc |-> "off"]
VDetOff == [pc |-> "off"]
FmtOff == [pc |-> "off"]
AvgOff == [pc |-> "off"]
LkOff == [pc |-> "off"]
SnOff == [pc |-> "off"]
NoNotes == [sent |-> 0]

DetIdle ==
    /\ main = MainOff
    /\ tasks = <<>>
    /\ sdet = SDetOff
    /\ rdet = RDetOff
    /\ vdet = VDetOff
    /\ notes = NoNotes
    /\ fmt = FmtOff
    /\ avg = AvgOff
    /\ lk = LkOff
    /\ sn = SnOff

SysStart(cmds) ==
    /\ \E v \in Prices :
         shares = AddOrUpdateStock(
                    AddOrUpdateIndex(MarketNew, "KOSPI", IndexOf(1)),
                    TheStock, StockOf(v))
    /\ mlock = "free"
    /\ alock = "free"
    /\ quit = FALSE
    /\ poller = PollerStart
    /\ setTask = Idle
    /\ offTask = Idle
    /\ cmdsLeft = cmds
    /\ setCount = ZeroCount
    /\ fireCount = ZeroCount
    /\ offRemoved = {}
    /\ removed = {}
    /\ lostInFlight = {}
    /\ DetIdle

SysInit == SysStart(MaxCmds)

\* The system before anything runs, for the models of a single component.
SysIdle ==
    /\ shares = MarketNew
    /\ mlock = "free"
    /\ alock = "free"
    /\ quit = FALSE
    /\ poller = PollerStart
    /\ setTask = Idle
    /\ offTask = Idle
    /\ cmdsLeft = 0
    /\ setCount = ZeroCount
    /\ fireCount = ZeroCount
    /\ offRemoved = {}
    /\ removed = {}
    /\ lostInFlight = {}
    /\ DetIdle

PollerInit ==
    /\ SysInit
    /\ alarms = AlarmNew
    /\ lastOp = NoOp
    /\ quotes = <<>>
    /\ seenTimes = {}
    /\ lastQuote = NoQuote
    /\ lastFound = FALSE

PollerNext ==
    \/ PSeedCheck \/ PSeedFetched \/ PSeedWrite
    \/ PLoopTop \/ PList
    \/ PSnapFetched \/ PIndexWrite
    \/ PReadPrev \/ PCheckAlarms \/ PRemoveAlarms \/ PSendAlarm \/ PStockWrite
    \/ PBackfillLock \/ PBackfillFetched \/ PBackfillLen
    \/ SetAlarmLookup \/ SetAlarmApply \/ SetAlarmReplied
    \/ OffAlarmLookup \/ OffAlarmApply \/ OffAlarmReplied
    \/ UserAdd \/ UserRemove
    \/ SendQuit

PollerSpec == PollerInit /\ [][PollerNext]_vars

\* The steps of the update_market task.
PollerStep ==
    \/ PSeedCheck \/ PSeedFetched \/ PSeedWrite
    \/ PLoopTop \/ PList
    \/ PSnapFetched \/ PIndexWrite
    \/ PReadPrev \/ PCheckAlarms \/ PRemoveAlarms \/ PSendAlarm \/ PStockWrite
    \/ PBackfillLock \/ PBackfillFetched \/ PBackfillLen

\* The tokio runtime keeps polling a task that can run, a request to the
\* Quote Source is answered (or fails), and a reply to the chat is delivered
\* (or fails): the Poller task and the two replies that release the alarm
\* lock are weakly fair.
PollerFairSpec ==
    /\ SysStart(MaxFairCmds)
    /\ alarms = AlarmNew
    /\ lastOp = NoOp
    /\ quotes = <<>>
    /\ seenTimes = {}
    /\ lastQuote = NoQuote
    /\ lastFound = FALSE
    /\ [][PollerNext]_vars
    /\ WF_vars(PollerStep)
    /\ WF_vars(SetAlarmReplied)
    /\ WF_vars(OffAlarmReplied)

\* The system of SysStart with a Poller whose target depth is depth error
\* penalties.
BackfillStart(depth) ==
    /\ \E v \in Prices :
         shares = AddOrUpdateStock(
                    AddOrUpdateIndex(MarketNew, "KOSPI", IndexOf(1)),
                    TheStock, StockOf(v))
    /\ mlock = "free"
    /\ alock = "free"
    /\ quit = FALSE
    /\ poller = [PollerStart EXCEPT !.min_graph_len = depth * ErrPenalty]
    /\ setTask = Idle
    /\ offTask = Idle
    /\ cmdsLeft = MaxFairCmds
    /\ setCount = ZeroCount
    /\ fireCount = ZeroCount
    /\ offRemoved = {}
    /\ removed = {}
    /\ lostInFlight = {}
    /\ DetIdle

\* The Poller of PollerFairSpec with a target depth of RetryDepth error
\* penalties, so that a failed history fetch is retried.
BackfillFairSpec ==
    /\ BackfillStart(RetryDepth)
    /\ alarms = AlarmNew
    /\ lastOp = NoOp
    /\ quotes = <<>>
    /\ seenTimes = {}
    /\ lastQuote = NoQuote
    /\ lastFound = FALSE
    /\ [][PollerNext]_vars
    /\ WF_vars(PollerStep)
    /\ WF_vars(SetAlarmReplied)
    /\ WF_vars(OffAlarmReplied)

AlarmInit ==
    /\ alarms = AlarmNew
    /\ lastOp = NoOp
    /\ quotes = <<>>
    /\ seenTimes = {}
    /\ lastQuote = NoQuote
    /\ lastFound = FALSE
    /\ SysIdle

\* One call of set_alarm(code, price).
SetAlarmCall ==
    \E code \in StockCodes, price \in Prices :
        /\ alarms' = AlarmSet(alarms, code, price)
        /\ lastOp' = [op |-> "set", code |-> code, price |-> price,
                      had |-> (code \in DOMAIN alarms
                                /\ price \in Elems(alarms[code])),
                      ret |-> FALSE]
        /\ UNCHANGED <<graphVars, sysVars>>

\* One call of remove_alarm(code, price).
RemoveAlarmCall ==
    \E code \in StockCodes, price \in Prices :
        LET r == AlarmRemove(alarms, code, price)
        IN /\ alarms' = r.alarms
           /\ lastOp' = [op |-> "remove", code |-> code, price |-> price,
                         had |-> (code \in DOMAIN alarms
                                   /\ price \in Elems(alarms[code])),
                         ret |-> r.removed]
           /\ UNCHANGED <<graphVars, sysVars>>

AlarmNext == SetAlarmCall \/ RemoveAlarmCall

AlarmSpec == AlarmInit /\ [][AlarmNext]_vars

(***************************************************************************)
(* main (main.rs:82-302): the start-up that loads the watch lists and the  *)
(* alarms and spawns the loops, and the shut-down.  The loops are seen     *)
(* from outside: running, iterating, stopped.                              *)
(***************************************************************************)
\* The contents of my_index.txt and my_stock.txt.
IndexFiles == {<<>>, <<"KOSPI">>, <<"KOSDAQ">>, <<"KOSPI", "KOSDAQ">>}
StockFiles == {<<>>, <<TheStock>>}

\* The loops main spawns, in the order of main.rs:170-196.
SpawnedLoops == <<"update_market", "notify_market_state", "notify_change_rate">>

NewTask == [state |-> "running", quit |-> FALSE, iters |-> 0]

mainFrame == <<graphVars, lastOp, mlock, alock, quit, poller, setTask,
               offTask, cmdsLeft, histVars, sdet, rdet, vdet, fmt,
               avg, lk, sn, notes>>

MainInit ==
    /\ quotes = <<>>
    /\ seenTimes = {}
    /\ lastQuote = NoQuote
    /\ lastFound = FALSE
    /\ alarms = AlarmNew
    /\ lastOp = NoOp
    /\ shares = MarketNew
    /\ mlock = "free"
    /\ alock = "free"
    /\ quit = FALSE
    /\ poller = PollerStart
    /\ setTask = Idle
    /\ offTask = Idle
    /\ cmdsLeft = 0
    /\ setCount = ZeroCount
    /\ fireCount = ZeroCount
    /\ offRemoved = {}
    /\ removed = {}
    /\ lostInFlight = {}
    /\ \E il \in IndexFiles, sl \in StockFiles :
         main = [pc |-> "load_index", index_lines |-> il, stock_lines |-> sl,
                 traders |-> <<>>]
    /\ tasks = <<>>
    /\ sdet = SDetOff
    /\ rdet = RDetOff
    /\ vdet = VDetOff
    /\ notes = NoNotes
    /\ fmt = FmtOff
    /\ avg = AvgOff
    /\ lk = LkOff
    /\ sn = SnOff

\* main.rs:105-121: each line of my_index.txt is fetched and written; a
\* failed fetch panics main (expect).
MLoadIndex ==
    /\ main.pc = "load_index"
    /\ IF main.index_lines = <<>>
       THEN /\ main' = [main EXCEPT !.pc = "load_stock"]
            /\ UNCHANGED shares
       ELSE \E r \in SnapshotResults("Index") :
              IF r = None
              THEN /\ main' = [main EXCEPT !.pc = "aborted"]
                   /\ UNCHANGED shares
              ELSE /\ shares' = AddOrUpdateIndex(shares, Head(main.index_lines),
                                                 IndexOf(r[1]))
                   /\ main' = [main EXCEPT !.index_lines = Tail(@)]
    /\ UNCHANGED <<mainFrame, alarms, tasks>>

\* main.rs:123-139: the same for my_stock.txt.
MLoadStock ==
    /\ main.pc = "load_stock"
    /\ IF main.stock_lines = <<>>
       THEN /\ main' = [main EXCEPT !.pc = "load_alarms"]
            /\ UNCHANGED shares
       ELSE \E r \in SnapshotResults("Stock") :
              IF r = None
              THEN /\ main' = [main EXCEPT !.pc = "aborted"]
                   /\ UNCHANGED shares
              ELSE /\ shares' = AddOrUpdateStock(shares, Head(main.stock_lines),
                                                 StockOf(r[1]))
                   /\ main' = [main EXCEPT !.stock_lines = Tail(@)]
    /\ UNCHANGED <<mainFrame, alarms, tasks>>

\* main.rs:141-166: the alarm files, here none or one threshold of the stock.
MLoadAlarms ==
    /\ main.pc = "load_alarms"
    /\ \/ alarms' = alarms
       \/ \E t \in Prices : alarms' = AlarmSet(alarms, TheStock, t)
    /\ main' = [main EXCEPT !.pc = "spawn"]
    /\ UNCHANGED <<mainFrame, shares, tasks>>

\* main.rs:168-197: the loops are spawned and their handles and quit
\* senders kept.
MSpawn ==
    /\ main.pc = "spawn"
    /\ tasks' = [n \in Elems(SpawnedLoops) |-> NewTask]
    /\ main' = [main EXCEPT !.pc = "serve", !.traders = SpawnedLoops]
    /\ UNCHANGED <<mainFrame, shares, alarms>>

\* trader.rs:33-50: update_market panics when a seed index that is not in
\* the Market cannot be fetched; the panic ends that task only.
TaskSeedPanic ==
    /\ "update_market" \in DOMAIN tasks
    /\ tasks["update_market"].state = "running"
    /\ tasks["update_market"].iters = 0
    /\ \E i \in 1..Len(SeedCodes) : ~MarketContains(shares, SeedCodes[i])
    /\ tasks' = [tasks EXCEPT !["update_market"].state = "panicked"]
    /\ UNCHANGED <<mainFrame, shares, alarms, main>>

\* The top of a loop (trader.rs:55-57, 239-241, 333-335): a pending stop
\* signal ends the loop, otherwise one more iteration runs.
TaskLoop ==
    \E n \in DOMAIN tasks :
        /\ tasks[n].state = "running"
        /\ IF tasks[n].quit
           THEN tasks' = [tasks EXCEPT ![n].state = "exited", ![n].quit = FALSE]
           ELSE /\ tasks[n].iters < MaxIter
                /\ tasks' = [tasks EXCEPT ![n].iters = @ + 1]
        /\ UNCHANGED <<mainFrame, shares, alarms, main>>

\* main.rs:239-241: the chat client stops.
MClientStopped ==
    /\ main.pc = "serve"
    /\ main' = [main EXCEPT !.pc = "stopping"]
    /\ UNCHANGED <<mainFrame, shares, alarms, tasks>>

\* main.rs:243-245: send(()).unwrap() on each quit channel; the send to a
\* task that is gone fails and the unwrap panics main.
MSendQuit ==
    /\ main.pc = "stopping"
    /\ IF \E n \in DOMAIN tasks : tasks[n].state # "running"
       THEN /\ main' = [main EXCEPT !.pc = "aborted"]
            /\ LET bad == CHOOSE i \in 1..Len(main.traders) :
                             /\ tasks[main.traders[i]].state # "running"
                             /\ \A j \in 1..(i - 1) :
                                   tasks[main.traders[j]].state = "running"
               IN tasks' = [n \in DOMAIN tasks |->
                             IF \E j \in 1..(bad - 1) : main.traders[j] = n
                             THEN [tasks[n] EXCEPT !.quit = TRUE]
                             ELSE tasks[n]]
       ELSE /\ main' = [main EXCEPT !.pc = "join"]
            /\ tasks' = [n \in DOMAIN tasks |-> [tasks[n] EXCEPT !.quit = TRUE]]
    /\ UNCHANGED <<mainFrame, shares, alarms>>

\* main.rs:246: join_all returns when every loop has ended.
MJoined ==
    /\ main.pc = "join"
    /\ \A n \in DOMAIN tasks : tasks[n].state # "running"
    /\ main' = [main EXCEPT !.pc = "save"]
    /\ UNCHANGED <<mainFrame, shares, alarms, tasks>>

MainNext ==
    \/ MLoadIndex \/ MLoadStock \/ MLoadAlarms \/ MSpawn
    \/ TaskSeedPanic \/ TaskLoop
    \/ MClientStopped \/ MSendQuit \/ MJoined

MainSpec == MainInit /\ [][MainNext]_vars

(***************************************************************************)
(* The detectors' view of the Market: while a detector runs, the Poller    *)
(* and the commands overwrite snapshots, add codes and remove codes.       *)
(***************************************************************************)
\* The codes the detectors meet: an index and a stock.
DetCodes == {"KOSPI", TheStock}

\* The answers of the Quote Source with the given session state and, for a
\* stock, the given signed change rate (in tenths of a percent).
DetIndex(st) == [IndexOf(1) EXCEPT !.state = st]

DetStock(st, rate) ==
    [StockOf(1) EXCEPT !.state = st,
                       !.change_type = IF rate < 0 THEN "5" ELSE "2",
                       !.change_rate = IF rate < 0 THEN 0 - rate ELSE rate]

\* The restriction of a HashMap to the keys in S (HashMap::retain).
Retain(map, S) == [k \in DOMAIN map \cap S |-> map[k]]

\* HashMap::insert
MapInsert(map, k, v) == [x \in DOMAIN map \cup {k} |-> IF x = k THEN v ELSE map[x]]

(***************************************************************************)
(* notify_market_state (trader.rs:228-316), one action per await-delimited *)
(* step.                                                                   *)
(***************************************************************************)
SDetStart ==
    [pc |-> "top", rx_quit |-> FALSE, prev_states |-> <<>>, codes |-> {},
     todo |-> {}, code |-> "", alarms |-> <<>>, rep_state |-> "CLOSE",
     cycle |-> 0]

\* The observations of the current cycle: the codes found in a new state,
\* the codes whose memory the pruning dropped, the codes removed from the
\* Market while remembered, and the notifications sent.
NotesStart == [sent |-> 0, moved |-> {}, body |-> <<>>, title |-> "",
               pruned |-> {}, stale |-> {}, fired |-> FALSE, opened |-> FALSE,
               band |-> {}, held |-> FALSE, spike |-> FALSE, seen |-> FALSE,
               last_t |-> {}]

\* The line of an instrument in the notification: the values the format
\* string of trader.rs:275-282 prints.
StateLine(share) ==
    [name |-> share.name, value |-> share.value,
     radix |-> IF share.kind = "Index" THEN 2 ELSE 0,
     change_value |-> share.change_value, change_rate |-> share.change_rate]

sdetFrame == <<graphVars, alarms, lastOp, mlock, alock, quit, poller, setTask,
               offTask, cmdsLeft, histVars, main, tasks, rdet, vdet,
               fmt, avg, lk, sn>>

\* A bug variant of the loop top: the batch is created once, outside the
\* loop, and keeps the lines of earlier cycles.
SDTopKeepBatch ==
    /\ sdet.pc = "top"
    /\ IF sdet.rx_quit
       THEN sdet' = [sdet EXCEPT !.pc = "exit", !.rx_quit = FALSE]
       ELSE /\ sdet.cycle < MaxDetCycles
            /\ sdet' = [sdet EXCEPT !.pc = "list", !.rep_state = "CLOSE",
                                    !.cycle = @ + 1]
    /\ notes' = [notes EXCEPT !.sent = 0, !.moved = {}]
    /\ UNCHANGED <<sdetFrame, shares>>

\* trader.rs:239-244: the stop check, the empty batch and the default title.
SDTop ==
    /\ sdet.pc = "top"
    /\ IF sdet.rx_quit
       THEN sdet' = [sdet EXCEPT !.pc = "exit", !.rx_quit = FALSE]
       ELSE /\ sdet.cycle < MaxDetCycles
            /\ sdet' = [sdet EXCEPT !.pc = "list", !.alarms = <<>>,
                                    !.rep_state = "CLOSE", !.cycle = @ + 1]
    /\ notes' = [notes EXCEPT !.sent = 0, !.moved = {}]
    /\ UNCHANGED <<sdetFrame, shares>>

\* A bug variant of the listing: the memory is never pruned.
SDListNoRetain ==
    /\ sdet.pc = "list"
    /\ mlock = "free"
    /\ sdet' = [sdet EXCEPT !.codes = DOMAIN shares, !.todo = DOMAIN shares,
                            !.pc = "visit"]
    /\ UNCHANGED <<sdetFrame, shares, notes>>

\* trader.rs:246-252: the codes of the Market under the read lock; the
\* memory of every other code is dropped.
SDList ==
    /\ sdet.pc = "list"
    /\ mlock = "free"
    /\ sdet' = [sdet EXCEPT !.codes = DOMAIN shares, !.todo = DOMAIN shares,
                            !.prev_states = Retain(@, DOMAIN shares),
                            !.pc = "visit"]
    /\ notes' = [notes EXCEPT
                   !.pruned = @ \cup (DOMAIN sdet.prev_states \ DOMAIN shares),
                   !.stale = @ \cap DOMAIN shares]
    /\ UNCHANGED <<sdetFrame, shares>>

\* A bug variant of the visit: the remembered state is not updated.
SDVisitNoUpdate ==
    /\ sdet.pc = "visit"
    /\ mlock = "free"
    /\ \E code \in sdet.todo :
         LET known == code \in DOMAIN sdet.prev_states
             moved == /\ MarketContains(shares, code)
                      /\ known
                      /\ sdet.prev_states[code] # shares[code].state
         IN /\ sdet' = [sdet EXCEPT
                  !.todo = @ \ {code},
                  !.code = code,
                  !.prev_states =
                      IF MarketContains(shares, code) /\ ~known
                      THEN MapInsert(@, code, shares[code].state) ELSE @,
                  !.alarms = IF moved THEN Append(@, StateLine(shares[code]))
                             ELSE @,
                  !.rep_state = IF moved THEN shares[code].state ELSE @]
            /\ notes' = [notes EXCEPT
                  !.moved = IF moved THEN @ \cup {code} ELSE @]
    /\ UNCHANGED <<sdetFrame, shares>>

\* A variant of the visit: the title follows every instrument that is read,
\* moved or not.
SDVisitRepAlways ==
    /\ sdet.pc = "visit"
    /\ mlock = "free"
    /\ \E code \in sdet.todo :
         LET known == code \in DOMAIN sdet.prev_states
             moved == /\ MarketContains(shares, code)
                      /\ known
                      /\ sdet.prev_states[code] # shares[code].state
         IN /\ sdet' = [sdet EXCEPT
                  !.todo = @ \ {code},
                  !.code = code,
                  !.prev_states =
                      IF MarketContains(shares, code)
                      THEN MapInsert(@, code, shares[code].state) ELSE @,
                  !.alarms = IF moved THEN Append(@, StateLine(shares[code]))
                             ELSE @,
                  !.rep_state = IF MarketContains(shares, code)
                                THEN shares[code].state ELSE @]
            /\ notes' = [notes EXCEPT
                  !.moved = IF moved THEN @ \cup {code} ELSE @,
                  !.stale = IF MarketContains(shares, code)
                            THEN @ \ {code} ELSE @]
    /\ UNCHANGED <<sdetFrame, shares>>

\* trader.rs:254-287: one code of the list: its Share is read under the
\* read lock (it may be gone); a first observation is remembered, a state
\* other than the remembered one is remembered and adds a line.
SDVisit ==
    /\ sdet.pc = "visit"
    /\ mlock = "free"
    /\ \E code \in sdet.todo :
         LET known == code \in DOMAIN sdet.prev_states
             moved == /\ MarketContains(shares, code)
                      /\ known
                      /\ sdet.prev_states[code] # shares[code].state
         IN /\ sdet' = [sdet EXCEPT
                  !.todo = @ \ {code},
                  !.code = code,
                  !.prev_states =
                      IF MarketContains(shares, code)
                      THEN MapInsert(@, code, shares[code].state) ELSE @,
                  !.alarms = IF moved THEN Append(@, StateLine(shares[code]))
                             ELSE @,
                  !.rep_state = IF moved THEN shares[code].state ELSE @]
            /\ notes' = [notes EXCEPT
                  !.moved = IF moved THEN @ \cup {code} ELSE @,
                  !.stale = IF MarketContains(shares, code)
                            THEN @ \ {code} ELSE @]
    /\ UNCHANGED <<sdetFrame, shares>>

\* trader.rs:289-312: after the last code, one message with the batch if
\* it is not empty, then the sleep.
SDSend ==
    /\ sdet.pc = "visit"
    /\ sdet.todo = {}
    /\ sdet' = [sdet EXCEPT !.pc = "top"]
    /\ notes' = IF sdet.alarms # <<>>
                THEN [notes EXCEPT !.sent = @ + 1, !.body = sdet.alarms,
                                   !.title = sdet.rep_state]
                ELSE notes
    /\ UNCHANGED <<sdetFrame, shares>>

\* main.rs:243-245: the stop signal of this loop.
SDQuit ==
    /\ ~sdet.rx_quit
    /\ sdet.pc # "exit"
    /\ sdet' = [sdet EXCEPT !.rx_quit = TRUE]
    /\ UNCHANGED <<sdetFrame, shares, notes>>

\* The Poller's write-back (trader.rs:95-99, 152-156) with a snapshot in
\* any session state.
EnvWriteBack ==
    /\ mlock = "free"
    /\ \E code \in DetCodes \cap DOMAIN shares, st \in MarketStates :
         shares' = IF code = TheStock
                   THEN AddOrUpdateStock(shares, code, DetStock(st, 0))
                   ELSE AddOrUpdateIndex(shares, code, DetIndex(st))
    /\ UNCHANGED <<sdetFrame, sdet, notes>>

\* show_index / show_stock with the add reaction (finance.rs:84-88,
\* 177-181).
EnvAdd ==
    /\ mlock = "free"
    /\ \E code \in DetCodes \ DOMAIN shares, st \in MarketStates :
         shares' = IF code = TheStock
                   THEN AddOrUpdateStock(shares, code, DetStock(st, 0))
                   ELSE AddOrUpdateIndex(shares, code, DetIndex(st))
    /\ UNCHANGED <<sdetFrame, sdet, notes>>

\* show_index / show_stock with the delete reaction (finance.rs:89-91,
\* 182-184).
EnvRemove ==
    /\ mlock = "free"
    /\ \E code \in DetCodes \cap DOMAIN shares :
         /\ shares' = RemoveShare(shares, code)
         /\ notes' = [notes EXCEPT
                        !.stale = IF code \in DOMAIN sdet.prev_states
                                  THEN @ \cup {code} ELSE @]
    /\ UNCHANGED <<sdetFrame, sdet>>

StateDetInit ==
    /\ quotes = <<>>
    /\ seenTimes = {}
    /\ lastQuote = NoQuote
    /\ lastFound = FALSE
    /\ alarms = AlarmNew
    /\ lastOp = NoOp
    /\ \E st \in MarketStates :
         shares = AddOrUpdateStock(
                    AddOrUpdateIndex(MarketNew, "KOSPI", DetIndex(st)),
                    TheStock, DetStock(st, 0))
    /\ mlock = "free"
    /\ alock = "free"
    /\ quit = FALSE
    /\ poller = PollerStart
    /\ setTask = Idle
    /\ offTask = Idle
    /\ cmdsLeft = 0
    /\ setCount = ZeroCount
    /\ fireCount = ZeroCount
    /\ offRemoved = {}
    /\ removed = {}
    /\ lostInFlight = {}
    /\ main = MainOff
    /\ tasks = <<>>
    /\ sdet = SDetStart
    /\ rdet = RDetOff
    /\ vdet = VDetOff
    /\ notes = NotesStart
    /\ fmt = FmtOff
    /\ avg = AvgOff
    /\ lk = LkOff
    /\ sn = SnOff

StateDetNext ==
    \/ SDTop \/ SDList \/ SDVisit \/ SDSend \/ SDQuit
    \/ EnvWriteBack \/ EnvAdd \/ EnvRemove

StateDetSpec == StateDetInit /\ [][StateDetNext]_vars

(***************************************************************************)
(* notify_change_rate (trader.rs:318-442).  Rates are integers in tenths   *)
(* of a percent; the band bounds are whole multiples of limit_range = 1.0. *)
(***************************************************************************)
\* limit_range = 1.0 (trader.rs:327), in tenths of a percent.
LimitRange == 10

\* The change rates the Quote Source reports: the multiples of half a
\* percent, and the two extremes.
RateInputs ==
    {r \in (0 - MaxRate)..MaxRate : r % 5 = 0} \cup {0 - MaxRate, MaxRate}

Abs(x) == IF x < 0 THEN 0 - x ELSE x

\* A variant of the rounding: a rate halfway between two multiples goes
\* to the one nearer to zero.
RoundRangeHalfDown(rate) ==
    LET q == (2 * Abs(rate) + LimitRange - 1) \div (2 * LimitRange)
    IN IF rate < 0 THEN 0 - q ELSE q

\* (change_rate / limit_range).round(): f64::round rounds half away from
\* zero.
RoundRange(rate) ==
    LET q == (2 * Abs(rate) + LimitRange) \div (2 * LimitRange)
    IN IF rate < 0 THEN 0 - q ELSE q

\* A variant of the new bound: the rounded rate itself.
NewUpperNoMargin(rate) == RoundRange(rate) * LimitRange

\* trader.rs:432
NewUpper(rate) == RoundRange(rate) * LimitRange + LimitRange

\* change_rate > upper - f64::EPSILON (trader.rs:391).  upper is a whole
\* number of percents: for -1.0 <= upper <= 2.0 the difference is below
\* upper and a rate equal to upper passes; outside, upper - EPSILON rounds
\* back to upper and the comparison is strict.
AboveUpper(rate, upper) ==
    IF 0 - LimitRange <= upper /\ upper <= 2 * LimitRange
    THEN rate >= upper ELSE rate > upper

\* change_rate < lower + f64::EPSILON (trader.rs:391): likewise, the sum
\* exceeds lower only for -2.0 <= lower <= 1.0.
BelowLower(rate, lower) ==
    IF 0 - 2 * LimitRange <= lower /\ lower <= LimitRange
    THEN rate <= lower ELSE rate < lower

\* A variant of the reset: the band of a stock that opens is computed from
\* its current change rate.
OpenResetFromRate(limits, code, change_rate) ==
    MapInsert(limits, code, NewUpper(change_rate))

\* trader.rs:376-378: the band of a stock that opens.
OpenReset(limits, code, change_rate) == MapInsert(limits, code, LimitRange)

\* A variant of the visit without the test of the session state: the band
\* is checked and moved whatever the state.
RateVisitNoGate(prev_states, rate_limits, code, share) ==
    LET state == share.state
        change_rate == share.change_rate
        changed == code \in DOMAIN prev_states /\ prev_states[code] # state
        ps == MapInsert(prev_states, code, state)
        rl1 == IF changed /\ state = "OPEN"
               THEN OpenReset(rate_limits, code, change_rate)
               ELSE rate_limits
        has == code \in DOMAIN rl1
        upper == rl1[code]
        lower == upper - LimitRange * 2
        out == has /\ (AboveUpper(change_rate, upper)
                       \/ BelowLower(change_rate, lower))
        move_val == change_rate - (upper - LimitRange)
    IN [prev_states |-> ps,
        rate_limits |-> IF out \/ ~has
                        THEN MapInsert(rl1, code, NewUpper(change_rate))
                        ELSE rl1,
        fired |-> out,
        band |-> IF out THEN {upper} ELSE {},
        title |-> IF ~out THEN ""
                  ELSE IF move_val > 0 THEN "rise" ELSE "fall"]

\* trader.rs:370-435: the visit of a stock: the memories after it, whether
\* a notification is sent, the move it reports and the upper bound that
\* the rate broke out of.
RateVisit(prev_states, rate_limits, code, share) ==
    LET state == share.state
        change_rate == share.change_rate
        changed == code \in DOMAIN prev_states /\ prev_states[code] # state
        ps == MapInsert(prev_states, code, state)
        rl1 == IF changed /\ state = "OPEN"
               THEN OpenReset(rate_limits, code, change_rate)
               ELSE rate_limits
        has == code \in DOMAIN rl1
        upper == rl1[code]
        lower == upper - LimitRange * 2
        out == has /\ (AboveUpper(change_rate, upper)
                       \/ BelowLower(change_rate, lower))
        move_val == change_rate - (upper - LimitRange)
    IN IF state # "OPEN"
       THEN [prev_states |-> ps, rate_limits |-> rl1, fired |-> FALSE,
             title |-> "", band |-> {}]
       ELSE [prev_states |-> ps,
             rate_limits |-> IF out \/ ~has
                             THEN MapInsert(rl1, code, NewUpper(change_rate))
                             ELSE rl1,
             fired |-> out,
             band |-> IF out THEN {upper} ELSE {},
             title |-> IF ~out THEN ""
                       ELSE IF move_val > 0 THEN "rise" ELSE "fall"]

RDetStart ==
    [pc |-> "top", rx_quit |-> FALSE, prev_states |-> <<>>,
     rate_limits |-> <<>>, todo |-> {}, code |-> ""]

rdetFrame == <<graphVars, alarms, lastOp, mlock, alock, quit, poller, setTask,
               offTask, cmdsLeft, histVars, main, tasks, sdet, vdet,
               fmt, avg, lk, sn>>

\* trader.rs:333-335: the stop check.
RDTop ==
    /\ rdet.pc = "top"
    /\ IF rdet.rx_quit
       THEN rdet' = [rdet EXCEPT !.pc = "exit", !.rx_quit = FALSE]
       ELSE rdet' = [rdet EXCEPT !.pc = "list"]
    /\ UNCHANGED <<rdetFrame, shares, notes>>

\* trader.rs:337-344: the codes of the Market under the read lock; both
\* memories drop every other code.
RDList ==
    /\ rdet.pc = "list"
    /\ mlock = "free"
    /\ rdet' = [rdet EXCEPT !.todo = DOMAIN shares,
                            !.prev_states = Retain(@, DOMAIN shares),
                            !.rate_limits = Retain(@, DOMAIN shares),
                            !.pc = "visit"]
    /\ UNCHANGED <<rdetFrame, shares, notes>>

\* trader.rs:346-436: one code of the list: its Share is read under the
\* read lock; an index or a code that is gone is skipped.
RDVisit ==
    /\ rdet.pc = "visit"
    /\ mlock = "free"
    /\ \E code \in rdet.todo :
         IF MarketContains(shares, code) /\ shares[code].kind = "Stock"
         THEN LET r == RateVisit(rdet.prev_states, rdet.rate_limits, code,
                                 shares[code])
              IN /\ rdet' = [rdet EXCEPT !.todo = @ \ {code}, !.code = code,
                                         !.prev_states = r.prev_states,
                                         !.rate_limits = r.rate_limits]
                 /\ notes' = [notes EXCEPT
                       !.fired = r.fired, !.title = r.title,
                       !.band = r.band,
                       !.held = r.fired \/ @,
                       !.opened = /\ code \in DOMAIN rdet.prev_states
                                  /\ rdet.prev_states[code] # "OPEN"
                                  /\ shares[code].state = "OPEN"]
         ELSE /\ rdet' = [rdet EXCEPT !.todo = @ \ {code}, !.code = code]
              /\ UNCHANGED notes
    /\ UNCHANGED <<rdetFrame, shares>>

\* trader.rs:438: after the last code, the sleep.
RDSleep ==
    /\ rdet.pc = "visit"
    /\ rdet.todo = {}
    /\ rdet' = [rdet EXCEPT !.pc = "top"]
    /\ UNCHANGED <<rdetFrame, shares, notes>>

\* main.rs:243-245: the stop signal of this loop.
RDQuit ==
    /\ ~rdet.rx_quit
    /\ rdet.pc # "exit"
    /\ rdet' = [rdet EXCEPT !.rx_quit = TRUE]
    /\ UNCHANGED <<rdetFrame, shares, notes>>

\* The stock's snapshot is written (trader.rs:152-156 by the Poller,
\* finance.rs:177-181 by show_stock) with any session state and change
\* rate.
EnvRateWrite ==
    /\ mlock = "free"
    /\ \E st \in MarketStates, rate \in RateInputs :
         shares' = AddOrUpdateStock(shares, TheStock, DetStock(st, rate))
    /\ notes' = [notes EXCEPT !.held = @ /\ shares' = shares]
    /\ UNCHANGED <<rdetFrame, rdet>>

\* show_stock with the delete reaction (finance.rs:182-184).
EnvRateRemove ==
    /\ mlock = "free"
    /\ MarketContains(shares, TheStock)
    /\ shares' = RemoveShare(shares, TheStock)
    /\ notes' = [notes EXCEPT !.held = FALSE]
    /\ UNCHANGED <<rdetFrame, rdet>>

RateDetInit ==
    /\ quotes = <<>>
    /\ seenTimes = {}
    /\ lastQuote = NoQuote
    /\ lastFound = FALSE
    /\ alarms = AlarmNew
    /\ lastOp = NoOp
    /\ \E st \in MarketStates, rate \in RateInputs :
         shares = AddOrUpdateStock(
                    AddOrUpdateIndex(MarketNew, "KOSPI", DetIndex("OPEN")),
                    TheStock, DetStock(st, rate))
    /\ mlock = "free"
    /\ alock = "free"
    /\ quit = FALSE
    /\ poller = PollerStart
    /\ setTask = Idle
    /\ offTask = Idle
    /\ cmdsLeft = 0
    /\ setCount = ZeroCount
    /\ fireCount = ZeroCount
    /\ offRemoved = {}
    /\ removed = {}
    /\ lostInFlight = {}
    /\ main = MainOff
    /\ tasks = <<>>
    /\ sdet = SDetOff
    /\ rdet = RDetStart
    /\ vdet = VDetOff
    /\ notes = NotesStart
    /\ fmt = FmtOff
    /\ avg = AvgOff
    /\ lk = LkOff
    /\ sn = SnOff

RateDetNext ==
    \/ RDTop \/ RDList \/ RDVisit \/ RDSleep \/ RDQuit
    \/ EnvRateWrite \/ EnvRateRemove

RateDetSpec == RateDetInit /\ [][RateDetNext]_vars

(***************************************************************************)
(* notify_high_trading_vol (trader.rs:444-557).  An f64 quotient is kept   *)
(* as an exact fraction in lowest terms; every quotient of the inputs used *)
(* here is compared as the f64 values compare.                             *)
(***************************************************************************)
\* avg_trading_vol_move(1, 20) (trader.rs:488): the baseline's tick count.
BaselineCnt == 20
\* curr_move > 3000.0 (trader.rs:505)
VolFloor == 3000
\* curr_move > avg_move * 5.0 (trader.rs:505)
VolFactor == 5
\* Duration::minutes(10) (trader.rs:514), tick times being in minutes.
CoolDown == 10

RECURSIVE Gcd(_, _)
Gcd(a, b) == IF b = 0 THEN a ELSE Gcd(b, a % b)

\* The quotient n / d (d > 0, n >= 0) in lowest terms.
Frac(n, d) == LET g == Gcd(n, d) IN [num |-> n \div g, den |-> d \div g]

\* a > b on quotients.
FracGt(a, b) == a.num * b.den > b.num * a.den

\* Graph::latest_time, market.rs:180-182
LatestTime(qs) == IF Len(qs) = 0 THEN None ELSE Some(qs[Len(qs)].time)

\* The fold of market.rs:188-194 over the positions lo..hi of the Vec.
RECURSIVE SumVolMove(_, _, _)
SumVolMove(qs, lo, hi) ==
    IF lo > hi THEN 0
    ELSE qs[hi].trading_vol_move + SumVolMove(qs, lo, hi - 1)

\* A variant of the window: the ticks are counted from the oldest.
AvgFromOldest(qs, offset, cnt) ==
    IF cnt = 0 \/ Len(qs) < offset + cnt THEN None
    ELSE Some(Frac(SumVolMove(qs, offset + 1, offset + cnt), cnt))

\* Graph::avg_trading_vol_move, market.rs:184-197: the mean of cnt ticks,
\* skipping the offset newest.
AvgTradingVolMove(qs, offset, cnt) ==
    IF cnt = 0 \/ Len(qs) < offset + cnt THEN None
    ELSE Some(Frac(SumVolMove(qs, Len(qs) - offset - cnt + 1,
                              Len(qs) - offset), cnt))

\* A variant of the spike condition without the absolute floor.
SpikeCondNoFloor(curr_move, avg_move) ==
    FracGt(curr_move, Frac(avg_move.num * VolFactor, avg_move.den))

\* trader.rs:505: the spike condition.
SpikeCond(curr_move, avg_move) ==
    /\ FracGt(curr_move, Frac(VolFloor, 1))
    /\ FracGt(curr_move, Frac(avg_move.num * VolFactor, avg_move.den))

\* A variant of the repeat filter without the test of the tick time.
NewNotiAnyTime(prev_noti, code, time, scale) ==
    \/ code \notin DOMAIN prev_noti
    \/ FracGt(scale, prev_noti[code].scale)
    \/ time - prev_noti[code].time > CoolDown

\* A variant of the repeat filter that looks at the elapsed time only.
NewNotiTimeOnly(prev_noti, code, time, scale) ==
    \/ code \notin DOMAIN prev_noti
    \/ /\ prev_noti[code].time # time
       /\ time - prev_noti[code].time > CoolDown

\* trader.rs:509-516: whether a spike is notified, given the remembered
\* (time, scale) of the last notification.
NewNoti(prev_noti, code, time, scale) ==
    \/ code \notin DOMAIN prev_noti
    \/ /\ prev_noti[code].time # time
       /\ \/ FracGt(scale, prev_noti[code].scale)
          \/ time - prev_noti[code].time > CoolDown

\* trader.rs:476-548: the visit of a listed code whose Share exists: the
\* memory after it, whether the spike condition held and whether a
\* notification is sent.
VolVisit(prev_noti, code, share) ==
    LET time == LatestTime(share.graph)
        curr_move == AvgTradingVolMove(share.graph, 0, 1)
        avg_move == AvgTradingVolMove(share.graph, 1, BaselineCnt)
        given == /\ share.state = "OPEN"
                 /\ time # None /\ curr_move # None /\ avg_move # None
        spike == given /\ SpikeCond(curr_move[1], avg_move[1])
        scale == Frac(curr_move[1].num * avg_move[1].den,
                      curr_move[1].den * avg_move[1].num)
        new_noti == spike /\ NewNoti(prev_noti, code, time[1], scale)
    IN [prev_noti |-> IF new_noti
                      THEN MapInsert(prev_noti, code,
                                     [time |-> time[1], scale |-> scale])
                      ELSE prev_noti,
        spike |-> spike,
        fired |-> new_noti]

VDetStart ==
    [pc |-> "top", rx_quit |-> FALSE, prev_noti |-> <<>>, todo |-> {},
     code |-> ""]

vdetFrame == <<graphVars, alarms, lastOp, mlock, alock, quit, poller, setTask,
               offTask, cmdsLeft, histVars, main, tasks, sdet, rdet,
               fmt, avg, lk, sn>>

\* trader.rs:455-457: the stop check.
VDTop ==
    /\ vdet.pc = "top"
    /\ IF vdet.rx_quit
       THEN vdet' = [vdet EXCEPT !.pc = "exit", !.rx_quit = FALSE]
       ELSE vdet' = [vdet EXCEPT !.pc = "list"]
    /\ UNCHANGED <<vdetFrame, shares, notes>>

\* trader.rs:459-475: the codes of the Market's stocks under the read lock;
\* the memory drops every other code.
VDList ==
    /\ vdet.pc = "list"
    /\ mlock = "free"
    /\ LET codes == {c \in DOMAIN shares : shares[c].kind = "Stock"}
       IN vdet' = [vdet EXCEPT !.todo = codes,
                               !.prev_noti = Retain(@, codes),
                               !.pc = "visit"]
    /\ UNCHANGED <<vdetFrame, shares, notes>>

\* trader.rs:477-548: one code of the list: its Share is read under the
\* read lock; a code that is gone is skipped.
VDVisit ==
    /\ vdet.pc = "visit"
    /\ mlock = "free"
    /\ \E code \in vdet.todo :
         IF MarketContains(shares, code)
         THEN LET r == VolVisit(vdet.prev_noti, code, shares[code])
              IN /\ vdet' = [vdet EXCEPT !.todo = @ \ {code}, !.code = code,
                                         !.prev_noti = r.prev_noti]
                 /\ notes' = [notes EXCEPT
                       !.fired = r.fired, !.spike = r.spike, !.seen = TRUE,
                       !.last_t = IF r.fired
                                  THEN {LatestTime(shares[code].graph)[1]}
                                  ELSE @]
         ELSE /\ vdet' = [vdet EXCEPT !.todo = @ \ {code}, !.code = code]
              /\ notes' = [notes EXCEPT !.fired = FALSE, !.spike = FALSE,
                                        !.seen = FALSE]
    /\ UNCHANGED <<vdetFrame, shares>>

\* trader.rs:551: after the last code, the sleep.
VDSleep ==
    /\ vdet.pc = "visit"
    /\ vdet.todo = {}
    /\ vdet' = [vdet EXCEPT !.pc = "top"]
    /\ UNCHANGED <<vdetFrame, shares, notes>>

\* main.rs:243-245: the stop signal of this loop.
VDQuit ==
    /\ ~vdet.rx_quit
    /\ vdet.pc # "exit"
    /\ vdet' = [vdet EXCEPT !.rx_quit = TRUE]
    /\ UNCHANGED <<vdetFrame, shares, notes>>

\* A Graph of len ticks, one a minute up to time t: the latest has the
\* volume delta curr, the others base.
VolGraph(len, base, curr, t) ==
    [i \in 1..len |->
       Quote(t - len + i, 1, IF i = len THEN curr ELSE base)]

\* The latest tick times: a first one, one minute later, and CoolDown
\* minutes after that.
VolTimes == {BaselineCnt + 1 + d : d \in {0, 1, CoolDown + 1}}

\* The Graphs the detector finds: one tick short of a baseline, or with a
\* baseline of a sixth or a third of the floor and a latest delta of
\* 3000, 4000, ... shares.
VolGraphs ==
    {VolGraph(BaselineCnt, VolFloor \div 3, VolFloor * 2, BaselineCnt)}
    \cup {VolGraph(BaselineCnt + 1, base, k * 1000, t) :
            base \in {VolFloor \div 6, VolFloor \div 3},
            k \in 3..MaxSpike, t \in VolTimes}

\* The session state and Graph of the stock: any Graph while Open, a Graph
\* with a spike while closed.
VolInputs ==
    {<<"OPEN", g>> : g \in VolGraphs}
    \cup {<<"CLOSE", VolGraph(BaselineCnt + 1, VolFloor \div 3,
                              MaxSpike * 1000, BaselineCnt + 1)>>}

\* The stock as the Poller leaves it between two visits (trader.rs:152-156,
\* 190-197) or as show_stock adds it: any session state and Graph.
EnvVolWrite ==
    /\ mlock = "free"
    /\ \E in \in VolInputs :
         shares' = MapInsert(shares, TheStock,
                     Share("Stock", StockFields(DetStock(in[1], 0)), in[2]))
    /\ notes' = [notes EXCEPT !.seen = @ /\ shares' = shares]
    /\ UNCHANGED <<vdetFrame, vdet>>

\* show_stock with the delete reaction (finance.rs:182-184).
EnvVolRemove ==
    /\ mlock = "free"
    /\ MarketContains(shares, TheStock)
    /\ shares' = RemoveShare(shares, TheStock)
    /\ notes' = [notes EXCEPT !.seen = FALSE, !.last_t = {}]
    /\ UNCHANGED <<vdetFrame, vdet>>

VolDetInit ==
    /\ quotes = <<>>
    /\ seenTimes = {}
    /\ lastQuote = NoQuote
    /\ lastFound = FALSE
    /\ alarms = AlarmNew
    /\ lastOp = NoOp
    /\ \E in \in VolInputs :
         shares = [c \in {"KOSPI", TheStock} |->
                     IF c = "KOSPI"
                     THEN Share("Index", IndexFields(c, DetIndex("OPEN")),
                                VolGraph(BaselineCnt + 1, VolFloor \div 3,
                                         MaxSpike * 1000, BaselineCnt + 1))
                     ELSE Share("Stock", StockFields(DetStock(in[1], 0)),
                                in[2])]
    /\ mlock = "free"
    /\ alock = "free"
    /\ quit = FALSE
    /\ poller = PollerStart
    /\ setTask = Idle
    /\ offTask = Idle
    /\ cmdsLeft = 0
    /\ setCount = ZeroCount
    /\ fireCount = ZeroCount
    /\ offRemoved = {}
    /\ removed = {}
    /\ lostInFlight = {}
    /\ main = MainOff
    /\ tasks = <<>>
    /\ sdet = SDetOff
    /\ rdet = RDetOff
    /\ vdet = VDetStart
    /\ notes = NotesStart
    /\ fmt = FmtOff
    /\ avg = AvgOff
    /\ lk = LkOff
    /\ sn = SnOff

VolDetNext ==
    \/ VDTop \/ VDList \/ VDVisit \/ VDSleep \/ VDQuit
    \/ EnvVolWrite \/ EnvVolRemove

VolDetSpec == VolDetInit /\ [][VolDetNext]_vars

(***************************************************************************)
(* format_value (util.rs:5-49).  A String is the sequence of its           *)
(* characters.  The values are i64; those used here are below 10^9 in      *)
(* magnitude, so the only overflow is that of 10^radix.                    *)
(***************************************************************************)
\* 1_000_000_000_000_000_000 = 10^18 (util.rs:22): the exponent.
BaseExp == 18

\* 10^n for n <= 9.
RECURSIVE Pow10(_)
Pow10(n) == IF n = 0 THEN 1 ELSE 10 * Pow10(n - 1)

\* ('0' as i64 + d) as u8 as char, for a digit d.
DigitChar(d) == <<"0", "1", "2", "3", "4", "5", "6", "7", "8", "9">>[d + 1]

\* The decimal digits of n >= 0 as Display prints them.
RECURSIVE DisplayInt(_)
DisplayInt(n) ==
    IF n < 10 THEN <<DigitChar(n)>>
    ELSE Append(DisplayInt(n \div 10), DigitChar(n % 10))

\* format!("{:01$}", n, width): the digits of n, with zeros on the left up
\* to the width.
RECURSIVE ZeroFill(_, _)
ZeroFill(digits, width) ==
    IF Len(digits) >= width THEN digits
    ELSE ZeroFill(<<"0">> \o digits, width)

\* Debug builds check arithmetic overflow and panic; release builds wrap.
Builds == {"debug", "release"}

\* util.rs:13-19: 10^radix, by radix multiplications.  10^19 and above
\* overflow i64: a debug build panics, a release build wraps; for a radix
\* of 19..39 the wrapped product is above 2^31 in magnitude, as is 10^radix
\* itself for 10..18.
Denominator(radix, build) ==
    IF radix <= 9 THEN [kind |-> "value", v |-> Pow10(radix)]
    ELSE IF radix <= BaseExp \/ build = "release" THEN [kind |-> "above"]
    ELSE [kind |-> "panic"]

\* util.rs:25-28: while base > integer { base /= 10; digit += 1 }, with
\* base = 10^exp, and exp = -1 for base = 0.
RECURSIVE SkipLeading(_, _, _)
SkipLeading(integer, exp, digit) ==
    IF exp >= 0 /\ (exp > 9 \/ Pow10(exp) > integer)
    THEN SkipLeading(integer, exp - 1, digit + 1)
    ELSE [exp |-> exp, digit |-> digit]

\* A variant of the digit loop with the comma one digit late.
RECURSIVE PushDigitsLate(_, _, _, _)
PushDigitsLate(s, integer, exp, digit) ==
    IF exp >= 1
    THEN LET base == Pow10(exp)
             s1 == IF s # <<>> /\ s[1] # "-" /\ digit % 3 = 2
                   THEN Append(s, ",") ELSE s
         IN PushDigitsLate(Append(s1, DigitChar(integer \div base)),
                           integer - (integer \div base) * base, exp - 1,
                           digit + 1)
    ELSE Append(s, DigitChar(integer))

\* util.rs:30-41: one digit a turn for base >= 10, with a comma before it
\* if s is not empty, does not begin with '-' and digit % 3 == 1; then the
\* last digit.
RECURSIVE PushDigits(_, _, _, _)
PushDigits(s, integer, exp, digit) ==
    IF exp >= 1
    THEN LET base == Pow10(exp)
             s1 == IF s # <<>> /\ s[1] # "-" /\ digit % 3 = 1
                   THEN Append(s, ",") ELSE s
         IN PushDigits(Append(s1, DigitChar(integer \div base)),
                       integer - (integer \div base) * base, exp - 1,
                       digit + 1)
    ELSE Append(s, DigitChar(integer))

\* format_value(val, radix) in the given build: Ok(the String) or a panic.
FormatValue(val0, radix, build) ==
    LET val == IF val0 < 0 THEN 0 - val0 ELSE val0
        s0 == IF val0 < 0 THEN <<"-">> ELSE <<>>
        denominator == Denominator(radix, build)
        integer == IF denominator.kind = "value"
                   THEN val \div denominator.v ELSE 0
        rem == IF denominator.kind = "value"
               THEN val % denominator.v ELSE val
        lead == SkipLeading(integer, BaseExp, 0)
        s1 == PushDigits(s0, integer, lead.exp, lead.digit)
    IN IF denominator.kind = "panic" THEN [kind |-> "panic", s |-> <<>>]
       ELSE [kind |-> "ok",
             s |-> IF radix > 0
                   THEN s1 \o <<".">> \o ZeroFill(DisplayInt(rem), radix)
                   ELSE s1]

\* The values of the tests (util.rs:89-110) below 10^9.
FmtTested == {321, 4321, 54321, 654321, 604301, 900604301}

FmtValues ==
    LET pos == (0..MaxFmt) \cup FmtTested
               \cup {Pow10(k) + d : k \in 1..8, d \in {0 - 1, 0, 1}}
    IN pos \cup {0 - v : v \in pos}

FmtInit ==
    /\ quotes = <<>>
    /\ seenTimes = {}
    /\ lastQuote = NoQuote
    /\ lastFound = FALSE
    /\ alarms = AlarmNew
    /\ lastOp = NoOp
    /\ shares = MarketNew
    /\ mlock = "free"
    /\ alock = "free"
    /\ quit = FALSE
    /\ poller = PollerStart
    /\ setTask = Idle
    /\ offTask = Idle
    /\ cmdsLeft = 0
    /\ setCount = ZeroCount
    /\ fireCount = ZeroCount
    /\ offRemoved = {}
    /\ removed = {}
    /\ lostInFlight = {}
    /\ main = MainOff
    /\ tasks = <<>>
    /\ sdet = SDetOff
    /\ rdet = RDetOff
    /\ vdet = VDetOff
    /\ notes = NoNotes
    /\ avg = AvgOff
    /\ lk = LkOff
    /\ sn = SnOff
    /\ \E val \in FmtValues, radix \in 0..MaxRadix :
         fmt = [pc |-> "call", val |-> val, radix |-> radix, build |-> "",
                out |-> [kind |-> "", s |-> <<>>]]

\* One call of format_value, in either build.
FormatValueCall ==
    /\ fmt.pc = "call"
    /\ \E build \in Builds :
         fmt' = [fmt EXCEPT !.pc = "done", !.build = build,
                            !.out = FormatValue(fmt.val, fmt.radix, build)]
    /\ UNCHANGED <<graphVars, alarms, lastOp, shares, mlock, alock, quit,
                   poller, setTask, offTask, cmdsLeft, histVars, main, tasks,
                   sdet, rdet, vdet, avg, lk, sn, notes>>

FmtNext == FormatValueCall

FmtSpec == FmtInit /\ [][FmtNext]_vars

(***************************************************************************)
(* Graph::avg_trading_vol_move on its own: the calls on one Graph.          *)
(***************************************************************************)
MaxAvgLen == 4
MaxAvgArg == 3

\* Graphs as Graph::update leaves them: ticks at ascending times, with
\* volume deltas that tell the positions apart.
AvgGraphs ==
    UNION {[1..n -> {0, 1, 3}] : n \in 0..MaxAvgLen}

AvgInit ==
    /\ \E f \in AvgGraphs :
         quotes = [i \in 1..Len(f) |->
                     Quote(i, 1, f[i])]
    /\ seenTimes = {}
    /\ lastQuote = NoQuote
    /\ lastFound = FALSE
    /\ alarms = <<>>
    /\ lastOp = NoOp
    /\ shares = MarketNew
    /\ mlock = "free"
    /\ alock = "free"
    /\ quit = FALSE
    /\ poller = PollerStart
    /\ setTask = Idle
    /\ offTask = Idle
    /\ cmdsLeft = 0
    /\ setCount = ZeroCount
    /\ fireCount = ZeroCount
    /\ offRemoved = {}
    /\ removed = {}
    /\ lostInFlight = {}
    /\ main = MainOff
    /\ tasks = <<>>
    /\ sdet = SDetOff
    /\ rdet = RDetOff
    /\ vdet = VDetOff
    /\ notes = NoNotes
    /\ fmt = FmtOff
    /\ avg = [pc |-> "idle", offset |-> 0, cnt |-> 0, out |-> None]
    /\ lk = LkOff
    /\ sn = SnOff

\* One call of avg_trading_vol_move on the Graph.
AvgTradingVolMoveCall ==
    /\ \E offset \in 0..MaxAvgArg, cnt \in 0..MaxAvgArg :
         avg' = [pc |-> "done", offset |-> offset, cnt |-> cnt,
                 out |-> AvgTradingVolMove(quotes, offset, cnt)]
    /\ UNCHANGED <<graphVars, alarms, lastOp, shares, mlock, alock, quit,
                   poller, setTask, offTask, cmdsLeft, histVars, main, tasks,
                   sdet, rdet, vdet, fmt, lk, sn, notes>>

AvgNext == AvgTradingVolMoveCall

AvgSpec == AvgInit /\ [][AvgNext]_vars

(***************************************************************************)
(* The two RwLocks on their own: who holds, who waits, in which order.     *)
(* serenity's RwLock is tokio::sync::RwLock: requests are served in the    *)
(* order they were made, and a request that cannot be served at once       *)
(* queues behind the earlier ones.                                         *)
(***************************************************************************)
LkLocks == {"M", "A"}
\* One task of each shape: off_alarm takes the guards of set_alarm, show_index
\* those of show_stock, and the detectors are alike.
LkTasks == {"update_market", "detector", "set_alarm", "show_alarms",
            "show_stock"}

\* The steps of a task that matter to the locks: a read() or write() on the
\* Market (M) or the registry (A), the drop of a guard, and an await of the
\* Quote Source or of the chat.
Acq(lock, mode) == <<"acq", lock, mode>>
Rel(lock) == <<"rel", lock, "">>
Await == <<"await", "", "">>

\* A task is a sequence of guard scopes, and between two scopes it holds no
\* guard: the model lets a task enter its scopes in any order, one at a
\* time, with the awaits that happen while a guard is held.

\* A variant of the Poller: the registry is read inside the block that
\* holds the Market read guard.
PollerProgramsNested ==
    {<<Acq("M", "r"), Acq("A", "r"), Rel("A"), Rel("M")>>,
     <<Acq("M", "w"), Rel("M")>>,
     <<Acq("A", "w"), Rel("A")>>,
     <<Acq("M", "w"), Await, Rel("M")>>}

\* update_market: the listing (trader.rs:79-87), the previous value
\* (108-111) and the Graph length (200-203) under the Market read guard;
\* the write-backs (93-99, 152-156) and the seeding (46-47) under the
\* Market write guard; the check (116-129) under the registry read guard;
\* the removal (134-139) under the registry write guard; the backfill's
\* Market write guard held across the history fetch (179-197).
PollerPrograms ==
    {<<Acq("M", "r"), Rel("M")>>,
     <<Acq("M", "w"), Rel("M")>>,
     <<Acq("A", "r"), Rel("A")>>,
     <<Acq("A", "w"), Rel("A")>>,
     <<Acq("M", "w"), Await, Rel("M")>>}

\* The detectors: the listing and the visit, each under a Market read guard
\* (trader.rs:246-249, 255-268, 337-340, 347-368).
DetectorPrograms ==
    {<<Acq("M", "r"), Rel("M")>>}

\* set_alarm (finance.rs:229-253) and off_alarm (finance.rs:274-310): the
\* name under the Market read guard; the registry write guard, held across
\* the reply.
AlarmCmdPrograms ==
    {<<Acq("M", "r"), Rel("M")>>,
     <<Acq("A", "w"), Await, Rel("A")>>}

\* show_alarms (finance.rs:333-390): for one code the name under the Market
\* read guard, then the registry read guard; for all codes the registry
\* read guard and, inside it, the Market read guard.
ShowAlarmsPrograms ==
    {<<Acq("M", "r"), Rel("M")>>,
     <<Acq("A", "r"), Rel("A")>>,
     <<Acq("A", "r"), Acq("M", "r"), Rel("M"), Rel("A")>>}

\* show_stock / show_index (finance.rs:175-186, 82-93): the Market write
\* guard after the reaction.
ShowSharePrograms ==
    {<<Acq("M", "w"), Rel("M")>>}

LkPrograms(t) ==
    CASE t = "update_market" -> PollerPrograms
      [] t = "detector" -> DetectorPrograms
      [] t = "set_alarm" -> AlarmCmdPrograms
      [] t = "show_alarms" -> ShowAlarmsPrograms
      [] OTHER -> ShowSharePrograms

LkFree == [w |-> "", r |-> {}, q |-> <<>>]
LkIdle == [prog |-> <<>>, pc |-> 1, wait |-> FALSE]

\* A request can be served: no writer, and for a write no reader either.
LkCompatible(l, mode) ==
    IF mode = "w" THEN l.w = "" /\ l.r = {} ELSE l.w = ""

LkTake(l, t, mode) ==
    IF mode = "w" THEN [l EXCEPT !.w = t] ELSE [l EXCEPT !.r = @ \cup {t}]

LkDrop(l, t) ==
    [l EXCEPT !.w = IF @ = t THEN "" ELSE @, !.r = @ \ {t}]

\* The requests at the head of the queue are served while they can be.
RECURSIVE LkHandOver(_)
LkHandOver(l) ==
    IF l.q # <<>> /\ LkCompatible(l, Head(l.q)[2])
    THEN LkHandOver(LkTake([l EXCEPT !.q = Tail(@)], Head(l.q)[1], Head(l.q)[2]))
    ELSE l

LkQueued(l) == {l.q[i][1] : i \in 1..Len(l.q)}

\* The task moves past its current step; after the last step it is over.
LkAdvance(task) ==
    IF task.pc = Len(task.prog) THEN LkIdle
    ELSE [task EXCEPT !.pc = @ + 1, !.wait = FALSE]

LkOp(t) == lk.tasks[t].prog[lk.tasks[t].pc]

LkAt(t, op) == lk.tasks[t].prog # <<>> /\ ~lk.tasks[t].wait /\ LkOp(t)[1] = op

LkFrame == <<graphVars, alarms, lastOp, shares, mlock, alock, quit, poller,
             setTask, offTask, cmdsLeft, histVars, main, tasks, sdet, rdet,
             vdet, fmt, avg, sn, notes>>

LkInit ==
    /\ quotes = <<>>
    /\ seenTimes = {}
    /\ lastQuote = NoQuote
    /\ lastFound = FALSE
    /\ alarms = <<>>
    /\ lastOp = NoOp
    /\ shares = MarketNew
    /\ mlock = "free"
    /\ alock = "free"
    /\ quit = FALSE
    /\ poller = PollerStart
    /\ setTask = Idle
    /\ offTask = Idle
    /\ cmdsLeft = 0
    /\ setCount = ZeroCount
    /\ fireCount = ZeroCount
    /\ offRemoved = {}
    /\ removed = {}
    /\ lostInFlight = {}
    /\ main = MainOff
    /\ tasks = <<>>
    /\ sdet = SDetOff
    /\ rdet = RDetOff
    /\ vdet = VDetOff
    /\ notes = NoNotes
    /\ fmt = FmtOff
    /\ avg = AvgOff
    /\ sn = SnOff
    /\ lk = [locks |-> [l \in LkLocks |-> LkFree],
             tasks |-> [t \in LkTasks |-> LkIdle]]

\* A task reaches one of its guard scopes.
LkStartBy(t) ==
    /\ lk.tasks[t].prog = <<>>
    /\ \E p \in LkPrograms(t) :
         lk' = [lk EXCEPT !.tasks[t] = [prog |-> p, pc |-> 1, wait |-> FALSE]]
    /\ UNCHANGED LkFrame

\* read().await / write().await: served at once when nobody queues and the
\* lock allows it, queued otherwise.
LkAcquireBy(t) ==
    /\ LkAt(t, "acq")
    /\ LET lock == LkOp(t)[2]
           mode == LkOp(t)[3]
           l == lk.locks[lock]
       IN IF l.q = <<>> /\ LkCompatible(l, mode)
          THEN lk' = [lk EXCEPT !.locks[lock] = LkTake(l, t, mode),
                                !.tasks[t] = LkAdvance(@)]
          ELSE lk' = [lk EXCEPT !.locks[lock].q = Append(@, <<t, mode>>),
                                !.tasks[t].wait = TRUE]
    /\ UNCHANGED LkFrame

\* The drop of a guard: the lock passes to the head of the queue.
LkReleaseBy(t) ==
    /\ LkAt(t, "rel")
    /\ LET lock == LkOp(t)[2]
           l == LkHandOver(LkDrop(lk.locks[lock], t))
           served == LkQueued(lk.locks[lock]) \ LkQueued(l)
       IN lk' = [lk EXCEPT
                   !.locks[lock] = l,
                   !.tasks = [u \in LkTasks |->
                                IF u = t \/ u \in served
                                THEN LkAdvance(lk.tasks[u])
                                ELSE lk.tasks[u]]]
    /\ UNCHANGED LkFrame

\* A fetch, a post or a reaction returns.
LkAwaitBy(t) ==
    /\ LkAt(t, "await")
    /\ lk' = [lk EXCEPT !.tasks[t] = LkAdvance(@)]
    /\ UNCHANGED LkFrame

LkStart == \E t \in LkTasks : LkStartBy(t)
LkAcquire == \E t \in LkTasks : LkAcquireBy(t)
LkRelease == \E t \in LkTasks : LkReleaseBy(t)
LkAwait == \E t \in LkTasks : LkAwaitBy(t)

LkNext == LkStart \/ LkAcquire \/ LkRelease \/ LkAwait

\* What a started task does on its own.
LkStep(t) == LkAcquireBy(t) \/ LkReleaseBy(t) \/ LkAwaitBy(t)

LockSpec == LkInit /\ [][LkNext]_vars

\* The runtime keeps polling a task that can run, and every fetch and post
\* returns.
LockFairSpec ==
    /\ LkInit
    /\ [][LkNext]_vars
    /\ \A t \in LkTasks : WF_vars(LkStep(t))

(***************************************************************************)
(* The Market on its own: any sequence of its writing methods.             *)
(***************************************************************************)
MarketCodes == {"A", "B"}

\* The Index and Stock answers given to the Market: the numeric fields of
\* snapshot n differ from each other and from those of every other snapshot.
IndexInputs ==
    {[state |-> st, now_value |-> n, change_value |-> n - 10,
      change_rate |-> 20 + n, trading_volume |-> 30 + n] :
        st \in {"CLOSE", "OPEN"}, n \in 1..MaxSnap}

StockInputs ==
    {[name |-> nm, state |-> st, now_value |-> n, change_type |-> ty,
      change_value |-> 10 + n, change_rate |-> 20 + n,
      trading_volume |-> 30 + n] :
        nm \in {"n1", "n2"}, st \in {"PREOPEN", "OPEN"}, ty \in {"2", "5"},
        n \in 1..MaxSnap}

MarketInit ==
    /\ quotes = <<>>
    /\ seenTimes = {}
    /\ lastQuote = NoQuote
    /\ lastFound = FALSE
    /\ alarms = <<>>
    /\ lastOp = NoOp
    /\ SysIdle

marketFrame == <<graphVars, alarms, mlock, alock, quit, poller, setTask,
                 offTask, cmdsLeft, histVars, detVars>>

\* One call of add_or_update_index(code, index).
AddOrUpdateIndexCall ==
    \E code \in MarketCodes, index \in IndexInputs :
        /\ shares' = AddOrUpdateIndex(shares, code, index)
        /\ lastOp' = [op |-> "add_or_update_index", code |-> code,
                      arg |-> index]
        /\ UNCHANGED marketFrame

\* One call of add_or_update_stock(code, stock).
AddOrUpdateStockCall ==
    \E code \in MarketCodes, stock \in StockInputs :
        /\ shares' = AddOrUpdateStock(shares, code, stock)
        /\ lastOp' = [op |-> "add_or_update_stock", code |-> code,
                      arg |-> stock]
        /\ UNCHANGED marketFrame

\* One call of update_index_graph / update_stock_graph with a page of one
\* tick.
UpdateGraphCall ==
    \E code \in MarketCodes, kind \in {"Index", "Stock"} :
        /\ shares' = UpdateGraph(shares, code, kind, <<Quote(1, 1, 0)>>)
        /\ lastOp' = [op |-> "update_graph", code |-> code, arg |-> kind]
        /\ UNCHANGED marketFrame

\* One call of remove_share(code).
RemoveShareCall ==
    \E code \in MarketCodes :
        /\ shares' = RemoveShare(shares, code)
        /\ lastOp' = [op |-> "remove_share", code |-> code, arg |-> ""]
        /\ UNCHANGED marketFrame

MarketNext ==
    \/ AddOrUpdateIndexCall
    \/ AddOrUpdateStockCall
    \/ UpdateGraphCall
    \/ RemoveShareCall

MarketSpec == MarketInit /\ [][MarketNext]_vars

GraphInit ==
    /\ quotes = <<>>
    /\ seenTimes = {}
    /\ lastQuote = NoQuote
    /\ lastFound = FALSE
    /\ alarms = <<>>
    /\ lastOp = NoOp
    /\ SysIdle

\* One call of Graph::update with an arbitrary tick.
Upsert ==
    \E q \in QuoteInputs :
        /\ quotes' = GraphUpdate(quotes, q)
        /\ seenTimes' = seenTimes \cup {q.time}
        /\ lastQuote' = q
        /\ lastFound' = (\E i \in 1..Len(quotes) : quotes[i].time = q.time)
        /\ UNCHANGED <<alarmVars, sysVars>>

GraphNext == Upsert

GraphSpec == GraphInit /\ [][GraphNext]_vars

(***************************************************************************)
(* Properties of the Graph.                                                *)
(***************************************************************************)
TimeSet(qs) == {qs[i].time : i \in 1..Len(qs)}

\* The n largest elements of S (all of S when it has fewer).
Newest(S, n) == {t \in S : Cardinality({u \in S : u > t}) < n}

\* C1: after any sequence of Graph::update calls, in any time order, the
\* ticks are strictly ascending by time (hence no two share a timestamp).
C1_StrictlyAscending ==
    \A i \in 1..(Len(quotes) - 1) : quotes[i].time < quotes[i + 1].time

\* C1 witness: a full Graph whose last upsert was a backfill, a new tick
\* placed before ticks that were already stored.
C1_Witness ==
    /\ Len(quotes) = MAX_QUOTES
    /\ ~lastFound
    /\ quotes[1] = lastQuote
    /\ quotes[2].time > lastQuote.time

\* C2: the Graph never holds more than MAX_QUOTES ticks, and it holds
\* exactly the MAX_QUOTES most recent timestamps ever upserted, so an
\* upsert that overflows evicts the smallest time, the new tick included.
C2_CapacityKeepsNewest ==
    /\ Len(quotes) <= MAX_QUOTES
    /\ TimeSet(quotes) = Newest(seenTimes, MAX_QUOTES)

\* C2 witness: more distinct times than the capacity were upserted, and the
\* last upserted tick, older than every stored one, was itself evicted.
C2_Witness ==
    /\ Cardinality(seenTimes) > MAX_QUOTES
    /\ Len(quotes) = MAX_QUOTES
    /\ lastQuote.time \notin TimeSet(quotes)
    /\ lastQuote.time < quotes[1].time

\* C3: an upsert of a tick whose time is already stored replaces that tick
\* in place: same length, every other tick unchanged, and upserting the
\* same tick once more changes nothing.
C3_ReplaceInPlace ==
    [][ (\E i \in 1..Len(quotes) : quotes[i].time = lastQuote'.time)
        => /\ Len(quotes') = Len(quotes)
           /\ \A i \in 1..Len(quotes) :
                 quotes'[i] = IF quotes[i].time = lastQuote'.time
                              THEN lastQuote' ELSE quotes[i]
           /\ GraphUpdate(quotes', lastQuote') = quotes' ]_vars

\* C3 witness: the last upsert hit a stored time in a Graph with other ticks
\* around it, and the stored tick now is the upserted one.
C3_Witness ==
    /\ lastFound
    /\ Len(quotes) = MAX_QUOTES
    /\ quotes[2] = lastQuote

(***************************************************************************)
(* Properties of the alarm registry.                                       *)
(***************************************************************************)
Ascending(v) == \A i \in 1..(Len(v) - 1) : v[i] < v[i + 1]

\* C4: after any sequence of set_alarm and remove_alarm calls every alarm set
\* is strictly ascending (each price once); set_alarm(code, p) makes the set
\* of code the old set plus p and touches no other code, and when p was
\* already present the registry is unchanged.
C4_SortedDistinct ==
    [][ /\ \A c \in DOMAIN alarms' : Ascending(alarms'[c])
        /\ lastOp'.op = "set" =>
            /\ Elems(AlarmsOf(alarms', lastOp'.code))
                 = Elems(AlarmsOf(alarms, lastOp'.code)) \cup {lastOp'.price}
            /\ \A c \in StockCodes \ {lastOp'.code} :
                 GetAlarms(alarms', c) = GetAlarms(alarms, c)
            /\ lastOp'.price \in Elems(AlarmsOf(alarms, lastOp'.code))
                 => alarms' = alarms ]_vars

\* C4 witness: the last call was set_alarm of a price already present, in a
\* set that holds other prices on both sides of it.
C4_Witness ==
    /\ lastOp.op = "set"
    /\ lastOp.had
    /\ lastOp.code \in DOMAIN alarms
    /\ Len(alarms[lastOp.code]) >= 3
    /\ alarms[lastOp.code][2] = lastOp.price

\* C5: remove_alarm(code, p) returns true exactly when p was in the set of
\* code; then only p is gone, and the code leaves the registry when p was
\* its last threshold; otherwise the registry is unchanged.
C5_RemoveAlarm ==
    [][ lastOp'.op = "remove" =>
          LET code == lastOp'.code
              p == lastOp'.price
              old == AlarmsOf(alarms, code)
          IN /\ lastOp'.ret = (p \in Elems(old))
             /\ lastOp'.ret =>
                  /\ AlarmsOf(alarms', code) = SelectSeq(old, LAMBDA x : x # p)
                  /\ (code \in AlarmCodes(alarms')) = (Elems(old) # {p})
                  /\ (Elems(old) = {p}) => GetAlarms(alarms', code) = <<>>
                  /\ \A c \in StockCodes \ {code} :
                       GetAlarms(alarms', c) = GetAlarms(alarms, c)
             /\ ~lastOp'.ret => alarms' = alarms ]_vars

\* C5 witness: the last call removed the last threshold of a code, which is
\* gone from the registry while another code keeps its thresholds.
C5_Witness ==
    /\ lastOp.op = "remove"
    /\ lastOp.ret
    /\ lastOp.code \notin AlarmCodes(alarms)
    /\ AlarmCodes(alarms) # {}

(***************************************************************************)
(* Properties of the Poller's alarm check and write-back.                  *)
(***************************************************************************)
\* The thresholds of v inside the closed interval between a and b.
Between(v, a, b) == {t \in Elems(v) : Min2(a, b) <= t /\ t <= Max2(a, b)}

\* C6: in a stock refresh that read the stored value prev and fetched new,
\* the thresholds the Poller fires are exactly those of the code's alarm set
\* inside [min(prev,new), max(prev,new)]: the check step collects exactly
\* them, the send step notifies exactly the collected ones, and nothing is
\* notified elsewhere.
C6_CrossingRule ==
    [][ /\ (poller.pc = "check" /\ poller'.pc # "check"
            /\ poller.prev_value # None)
           => Elems(poller'.executed)
                = Between(AlarmsOf(alarms, poller.code),
                          poller.prev_value[1], poller.fetched[1])
        /\ \A t \in Prices :
             fireCount'[t] = fireCount[t]
               + (IF poller.pc = "send" /\ poller'.pc # "send"
                     /\ t \in Elems(poller.executed) THEN 1 ELSE 0) ]_vars

\* C6 witness: the Poller is about to notify one crossed threshold after a
\* real move of the price, while another threshold of the code, outside the
\* interval, stays in the registry.
C6_Witness ==
    /\ poller.pc = "send"
    /\ Len(poller.executed) = 1
    /\ poller.prev_value # Some(poller.fetched[1])
    /\ \E t \in Elems(AlarmsOf(alarms, poller.code)) :
         t \notin Between(<<t>>, poller.prev_value[1], poller.fetched[1])

\* 1 while the Poller has removed threshold t and not yet notified it.
Pending(t) == IF poller.pc = "send" /\ t \in Elems(poller.executed) THEN 1 ELSE 0

InRegistry(t) == IF t \in Elems(AlarmsOf(alarms, TheStock)) THEN 1 ELSE 0

\* C7: alarms are one-shot: a threshold is notified at most once per
\* set_alarm that inserted it, and a threshold that is in the registry is
\* one whose insertion has not been notified (nor is about to be): a fired
\* threshold is gone unless it was set again.
C7_OneShot ==
    \A t \in Prices : fireCount[t] + Pending(t) + InRegistry(t) <= setCount[t]

\* C7 witness: a threshold set once has fired once, and a later refresh
\* whose values would cross it again has passed the check without it.
C7_Witness ==
    /\ poller.pc = "stock_write"
    /\ poller.cycle = 2
    /\ poller.prev_value # None
    /\ poller.executed = <<>>
    /\ \E t \in Prices :
         /\ setCount[t] = 1
         /\ fireCount[t] = 1
         /\ Crossed(poller.prev_value[1], t, poller.fetched[1])

\* C8: under every interleaving with set_alarm and off_alarm no threshold
\* fires twice, and no threshold that off_alarm has successfully removed is
\* afterwards notified by the Poller.
C8_AtomicCheckRemove ==
    /\ \A t \in Prices : fireCount[t] <= setCount[t]
    /\ poller.pc = "send" => Elems(poller.executed) \cap offRemoved = {}

\* C9: when the Poller overwrites the stored value prev of a stock by new,
\* every threshold that is in the code's alarm set at that moment and lies
\* in [min(prev,new), max(prev,new)] is fired by that refresh.
C9_NoLostAlarm ==
    [][ (poller.pc = "stock_write" /\ poller'.pc # "stock_write"
         /\ MarketContains(shares, poller.code)
         /\ poller.prev_value = ShareValue(shares, poller.code))
        => Between(AlarmsOf(alarms, poller.code),
                   shares[poller.code].value, poller.fetched[1])
             \subseteq Elems(poller.executed) ]_vars

\* C10: a code the user removed stays out of the Market until the user adds
\* it again or the start-up seeding writes it: no write-back of the Poller
\* (snapshot overwrite or graph update) brings it back.
C10_NoResurrection ==
    /\ removed \cap DOMAIN shares = {}
    /\ lostInFlight \subseteq removed

\* C10 witness: the stock was removed while its snapshot was in flight, the
\* snapshot arrived, the write-back ran, and the Market is without the code.
C10_Witness ==
    /\ poller.pc = "bf"
    /\ poller.code = TheStock
    /\ poller.fetched # None
    /\ poller.code \in lostInFlight
    /\ ~MarketContains(shares, poller.code)

(***************************************************************************)
(* Properties of the Poller's locking and failure handling.                *)
(***************************************************************************)
\* The positions at which update_market awaits an answer of the Quote Source.
FetchPcs == {"seed_fetch", "snap", "bf_fetch"}

\* C11: no Quote Source fetch (snapshot or history page) is in flight while
\* the fetching task holds the write lock of the Market or of the alarm
\* registry.
C11_NoFetchUnderWriteLock ==
    poller.pc \in FetchPcs => (mlock # "poller" /\ alock # "poller")

\* C16: when a seed instrument of the Poller cannot be fetched at start-up
\* the system does not go on running: once update_market has died on its
\* seed, no command handler changes the registries or makes progress.
C16_SeedFailureAborts ==
    [][ poller.pc = "panicked"
        => UNCHANGED <<shares, alarms, setTask, offTask, cmdsLeft>> ]_vars

\* The snapshot request of the current code failed (its backfill follows).
SnapFailed == poller.pc = "bf" /\ poller.fetched = None

\* C13: a fetch failure never ends the Poller: no answer of the Quote Source
\* takes the task out of its loop; a code leaves the cycle's list only by
\* getting its snapshot request and the cycle ends only when the list is
\* empty, so a failure skips no remaining code; and after a fetch, failed or
\* not, the Poller reaches the end of the cycle (the top of the loop, where
\* the next cycle starts).
C13_FetchErrorIsolated ==
    /\ [][ /\ poller.pc \in {"snap", "bf_fetch"}
              => poller'.pc \notin {"exit", "panicked"}
           /\ (poller.pc \notin {"loop_top", "seed_check", "seed_write"}
               /\ poller'.pc = "loop_top") => poller.todo = {}
           /\ (poller.pc # "list" /\ poller'.todo # poller.todo)
              => /\ poller'.pc = "snap"
                 /\ <<poller'.code, poller'.kind>> \in poller.todo
                 /\ poller'.todo = poller.todo \ {<<poller'.code, poller'.kind>>} ]_vars
    /\ (poller.pc \in {"snap", "bf_fetch"}) ~> (poller.pc = "loop_top")

\* C13 witness: the snapshot of one code failed while other codes of the
\* cycle are still to be fetched.
C13_Witness ==
    /\ SnapFailed
    /\ poller.todo # {}

SnapshotOf(share) ==
    [name |-> share.name, state |-> share.state, value |-> share.value,
     change_value |-> share.change_value, change_rate |-> share.change_rate,
     trading_volume |-> share.trading_volume]

\* The snapshot a call of add_or_update_index / add_or_update_stock brings:
\* an index is named by its code, a stock's change is signed by its type.
GivenSnapshot(op) ==
    IF op.op = "add_or_update_index"
    THEN [name |-> op.code, state |-> op.arg.state, value |-> op.arg.now_value,
          change_value |-> op.arg.change_value,
          change_rate |-> op.arg.change_rate,
          trading_volume |-> op.arg.trading_volume]
    ELSE [name |-> op.arg.name, state |-> op.arg.state,
          value |-> op.arg.now_value,
          change_value |-> IF op.arg.change_type \in {"4", "5"}
                           THEN 0 - op.arg.change_value
                           ELSE op.arg.change_value,
          change_rate |-> IF op.arg.change_type \in {"4", "5"}
                          THEN 0 - op.arg.change_rate
                          ELSE op.arg.change_rate,
          trading_volume |-> op.arg.trading_volume]

\* C12: add_or_update on a code not in the Market creates an entry with the
\* given snapshot and an empty Graph; on a code in the Market it overwrites
\* all six snapshot fields by the new snapshot and leaves the entry's Graph
\* (and kind) and every other entry unchanged.
C12_AddOrUpdate ==
    [][ lastOp'.op \in {"add_or_update_index", "add_or_update_stock"} =>
          LET code == lastOp'.code
          IN /\ DOMAIN shares' = DOMAIN shares \cup {code}
             /\ \A c \in DOMAIN shares \ {code} : shares'[c] = shares[c]
             /\ SnapshotOf(shares'[code]) = GivenSnapshot(lastOp')
             /\ IF code \in DOMAIN shares
                THEN /\ shares'[code].graph = shares[code].graph
                     /\ shares'[code].kind = shares[code].kind
                ELSE /\ shares'[code].graph = <<>>
                     /\ shares'[code].kind =
                          (IF lastOp'.op = "add_or_update_index"
                           THEN "Index" ELSE "Stock") ]_vars

\* C12 witness: the last call overwrote, with a falling stock, the snapshot
\* of an entry that holds a tick in its Graph, next to another entry.
C12_Witness ==
    /\ lastOp.op = "add_or_update_stock"
    /\ lastOp.arg.change_type = "5"
    /\ lastOp.code \in DOMAIN shares
    /\ shares[lastOp.code].graph # <<>>
    /\ shares[lastOp.code].change_value < 0
    /\ DOMAIN shares = MarketCodes

(***************************************************************************)
(* Properties of the start-up.                                             *)
(***************************************************************************)
\* The Poller and the three detectors.
FourLoops == {"update_market", "notify_market_state", "notify_change_rate",
              "notify_high_trading_vol"}

\* C15: once start-up is over, four loops have been started: the Poller and
\* the state-change, rate-breakout and volume-spike detectors.
C15_FourLoops ==
    main.pc \in {"serve", "stopping", "join"} => FourLoops \subseteq DOMAIN tasks

(***************************************************************************)
(* Properties of the state-change detector.                                *)
(***************************************************************************)
\* The step of notify_market_state that processes one code of its list.
SDVisited == sdet.pc = "visit" /\ sdet'.todo # sdet.todo

\* The name the Market stores for a code of the detector runs.
DetName(code) == IF code = TheStock THEN StockOf(1).name ELSE code

\* C17: the first observation of an instrument records its state and adds
\* no line; a later observation adds exactly one line iff the current state
\* differs from the remembered one, and the current state is remembered
\* either way; a code that is gone from the Market changes nothing.
C17_StateTransitions ==
    [][ SDVisited =>
          LET c == sdet'.code
              old == sdet.prev_states
          IN IF ~MarketContains(shares, c)
             THEN /\ sdet'.prev_states = old
                  /\ sdet'.alarms = sdet.alarms
             ELSE /\ DOMAIN sdet'.prev_states = DOMAIN old \cup {c}
                  /\ sdet'.prev_states[c] = shares[c].state
                  /\ \A k \in DOMAIN old \ {c} : sdet'.prev_states[k] = old[k]
                  /\ IF c \in DOMAIN old /\ old[c] # shares[c].state
                     THEN /\ Len(sdet'.alarms) = Len(sdet.alarms) + 1
                          /\ SubSeq(sdet'.alarms, 1, Len(sdet.alarms))
                               = sdet.alarms
                          /\ sdet'.alarms[Len(sdet'.alarms)].name
                               = shares[c].name
                     ELSE sdet'.alarms = sdet.alarms ]_vars

\* C17 witness: in a later cycle the detector has just added the line of a
\* code whose state changed, while another remembered code added none.
C17_Witness ==
    /\ sdet.pc = "visit"
    /\ sdet.cycle >= 2
    /\ sdet.todo = {}
    /\ Len(sdet.alarms) = 1
    /\ sdet.alarms[1].name = DetName(sdet.code)
    /\ DOMAIN sdet.prev_states = DetCodes

\* C18: a cycle of the state-change detector sends at most one
\* notification; it sends one iff some instrument was found in a new state
\* in that cycle, and the body holds exactly one line per such instrument.
C18_OneNotificationPerCycle ==
    /\ notes.sent <= 1
    /\ (sdet.pc = "top" /\ sdet.cycle > 0) =>
          /\ (notes.sent = 1) <=> (notes.moved # {})
          /\ notes.sent = 1 =>
                /\ Len(notes.body) = Cardinality(notes.moved)
                /\ {notes.body[i].name : i \in 1..Len(notes.body)}
                     = {DetName(c) : c \in notes.moved}

\* C18 witness: a cycle has ended with one notification that holds the
\* lines of two instruments.
C18_Witness ==
    /\ sdet.pc = "top"
    /\ notes.sent = 1
    /\ Cardinality(notes.moved) = 2
    /\ Len(notes.body) = 2

RDVisited == rdet.pc = "visit" /\ rdet'.todo # rdet.todo

\* That step observes the state change into Open of a stock it remembers.
OpenedNow ==
    /\ RDVisited
    /\ MarketContains(shares, rdet'.code)
    /\ shares[rdet'.code].kind = "Stock"
    /\ rdet'.code \in DOMAIN rdet.prev_states
    /\ rdet.prev_states[rdet'.code] # "OPEN"
    /\ shares[rdet'.code].state = "OPEN"

\* The multiple of range nearest to rate, the one away from zero on a tie.
NearestMultiple(rate) ==
    LET ms == {k * LimitRange : k \in (0 - MaxRate)..MaxRate}
    IN CHOOSE m \in ms :
         \A n \in ms : \/ Abs(rate - m) < Abs(rate - n)
                       \/ (Abs(rate - m) = Abs(rate - n) /\ Abs(m) >= Abs(n))

\* C20 as claimed: when the detector observes a stock's state change into
\* Open, the band's upper bound U becomes the current change rate rounded
\* to the nearest multiple of range, plus range.
C20_OpenInitFromRate ==
    [][ OpenedNow =>
          rdet'.rate_limits[rdet'.code]
            = NearestMultiple(shares[rdet'.code].change_rate) + LimitRange ]_vars

\* C20 amended: on a state change into Open, U is reset to range, whatever
\* the change rate, and the breakout check of the same cycle runs on that
\* band: a rate strictly inside (-range, range) leaves U = range and sends
\* nothing; any other rate sends a notification and makes U the rate
\* rounded to the nearest multiple of range, plus range.
C20_OpenResetsBand ==
    [][ OpenedNow =>
          LET rate == shares[rdet'.code].change_rate
              U == rdet'.rate_limits[rdet'.code]
          IN IF 0 - LimitRange < rate /\ rate < LimitRange
             THEN U = LimitRange /\ ~notes'.fired
             ELSE U = NearestMultiple(rate) + LimitRange /\ notes'.fired ]_vars

\* C20 witness: the detector has just seen the stock open at a rate of at
\* least half of range and below range: it sent nothing and U is range.
C20_Witness ==
    /\ notes.opened
    /\ ~notes.fired
    /\ rdet.pc = "visit"
    /\ rdet.code = TheStock
    /\ MarketContains(shares, TheStock)
    /\ shares[TheStock].state = "OPEN"
    /\ 2 * shares[TheStock].change_rate >= LimitRange
    /\ shares[TheStock].change_rate < LimitRange
    /\ rdet.rate_limits[TheStock] = LimitRange

\* The step of notify_change_rate that visits a stock in Open state which
\* it remembers in Open state (the same session) and which has a band.
SameSessionVisit ==
    /\ RDVisited
    /\ MarketContains(shares, rdet'.code)
    /\ shares[rdet'.code].kind = "Stock"
    /\ shares[rdet'.code].state = "OPEN"
    /\ rdet'.code \in DOMAIN rdet.prev_states
    /\ rdet.prev_states[rdet'.code] = "OPEN"
    /\ rdet'.code \in DOMAIN rdet.rate_limits

\* C21 as claimed: with range 1.0 and U = 2.0 for an Open instrument,
\* observing a change rate of 2.5 emits a notification and recenters U to
\* 3.0.
C21_RecenterTo3 ==
    [][ (/\ SameSessionVisit
         /\ rdet.rate_limits[rdet'.code] = 2 * LimitRange
         /\ 2 * shares[rdet'.code].change_rate = 5 * LimitRange)
        => (notes'.fired /\ rdet'.rate_limits[rdet'.code] = 3 * LimitRange) ]_vars

\* C21 amended: with range 1.0 and U = 2.0 for an Open instrument,
\* observing 2.5 emits a breakout notification and recenters U to 4.0, and
\* a following observation of 2.6 in the same session (U = 4.0) emits no
\* notification and leaves U alone.
C21_RecenterTo4 ==
    [][ /\ (/\ SameSessionVisit
            /\ rdet.rate_limits[rdet'.code] = 2 * LimitRange
            /\ 2 * shares[rdet'.code].change_rate = 5 * LimitRange)
           => (notes'.fired /\ rdet'.rate_limits[rdet'.code] = 4 * LimitRange)
        /\ (/\ SameSessionVisit
            /\ rdet.rate_limits[rdet'.code] = 4 * LimitRange
            /\ shares[rdet'.code].change_rate = MaxRate
            /\ MaxRate < 4 * LimitRange /\ MaxRate > 2 * LimitRange)
           => (~notes'.fired /\ rdet'.rate_limits[rdet'.code] = 4 * LimitRange)
      ]_vars

\* C21 witness: the detector has just compared a rate of 2.5 with U = 2.0,
\* sent a notification of a rise and left U = 4.0.
C21_Witness ==
    /\ notes.fired
    /\ notes.title = "rise"
    /\ ~notes.opened
    /\ notes.band = {2 * LimitRange}
    /\ notes.held
    /\ 2 * shares[TheStock].change_rate = 5 * LimitRange
    /\ TheStock \in DOMAIN rdet.rate_limits
    /\ rdet.rate_limits[TheStock] = 4 * LimitRange

\* C22: after the detector fires for an instrument and recomputes U, the
\* rate that fired lies strictly inside the new band
\* (U - 2*range < rate < U), and when the next visit of the instrument, in
\* the same session, observes the same rate again (notes.held: the
\* snapshot has not changed since the firing), nothing is sent; this
\* covers the rates halfway between two multiples of range and the
\* negative ones.
C22_NoRefireOnSameRate ==
    [][ /\ (RDVisited /\ rdet'.rate_limits # rdet.rate_limits
              /\ notes'.fired)
           => LET U == rdet'.rate_limits[rdet'.code]
                  rate == shares[rdet'.code].change_rate
              IN U - 2 * LimitRange < rate /\ rate < U
        /\ (SameSessionVisit /\ notes.held)
           => (~notes'.fired /\ rdet'.rate_limits = rdet.rate_limits) ]_vars

\* C22 witness: the detector fired at a negative rate halfway between two
\* multiples of range, and has just visited the stock again at the same
\* rate without sending anything.
C22_Witness ==
    /\ notes.held
    /\ ~notes.fired
    /\ ~notes.opened
    /\ rdet.code = TheStock
    /\ LET r == shares[TheStock].change_rate
       IN r < 0 /\ r % LimitRange # 0 /\ (2 * r) % LimitRange = 0

(***************************************************************************)
(* Properties of the volume-spike detector.                                *)
(***************************************************************************)
\* The step of notify_high_trading_vol that processes one code of its list.
VDVisited == vdet.pc = "visit" /\ vdet'.todo # vdet.todo

\* The sum of the volume deltas of the ticks lo..hi of a Graph.
RECURSIVE SumOf(_, _, _)
SumOf(qs, lo, hi) ==
    IF lo > hi THEN 0 ELSE qs[lo].trading_vol_move + SumOf(qs, lo + 1, hi)

\* C23: the volume-spike detector emits a notification for an instrument
\* only if it is a Stock in state Open, its Graph holds at least 21 ticks,
\* the volume delta of the latest tick exceeds 3000 and exceeds 5 times
\* the mean volume delta of the 20 ticks before the latest.
C23_SpikeOnlyIf ==
    [][ (VDVisited /\ notes'.fired) =>
          /\ MarketContains(shares, vdet'.code)
          /\ LET sh == shares[vdet'.code]
                 n == Len(sh.graph)
             IN /\ sh.kind = "Stock"
                /\ sh.state = "OPEN"
                /\ n >= BaselineCnt + 1
                /\ sh.graph[n].trading_vol_move > VolFloor
                /\ BaselineCnt * sh.graph[n].trading_vol_move
                     > VolFactor * SumOf(sh.graph, n - BaselineCnt, n - 1) ]_vars

\* C23 witness: the detector has just notified a spike of the stock.
C23_Witness ==
    /\ notes.fired
    /\ notes.seen
    /\ vdet.code = TheStock
    /\ TheStock \in DOMAIN vdet.prev_noti
    /\ vdet.prev_noti[TheStock].time = LatestTime(shares[TheStock].graph)[1]

\* The magnitude of the latest tick of a Graph with a baseline: its volume
\* delta over the mean of the BaselineCnt ticks before it.
ScaleOf(qs) ==
    Frac(BaselineCnt * qs[Len(qs)].trading_vol_move,
         SumOf(qs, Len(qs) - BaselineCnt, Len(qs) - 1))

\* The step of notify_high_trading_vol that visits an instrument showing a
\* spike, of which it remembers a notification.
RepeatVisit ==
    /\ VDVisited
    /\ vdet'.code \in DOMAIN vdet.prev_noti
    /\ MarketContains(shares, vdet'.code)
    /\ LET sh == shares[vdet'.code]
           n == Len(sh.graph)
       IN /\ sh.state = "OPEN"
          /\ n >= BaselineCnt + 1
          /\ sh.graph[n].trading_vol_move > VolFloor
          /\ BaselineCnt * sh.graph[n].trading_vol_move
               > VolFactor * SumOf(sh.graph, n - BaselineCnt, n - 1)

C25_CooldownAtLeast ==
    [][ (/\ RepeatVisit
         /\ LatestTime(shares[vdet'.code].graph)
              # Some(vdet.prev_noti[vdet'.code].time))
        => LET prev == vdet.prev_noti[vdet'.code]
               qs == shares[vdet'.code].graph
           IN notes'.fired <=> (\/ FracGt(ScaleOf(qs), prev.scale)
                                \/ qs[Len(qs)].time - prev.time >= CoolDown)
      ]_vars

\* C25 amended: for an instrument notified at tick time t0 with magnitude
\* m0, a spike at a tick time t1 # t0 is notified iff its magnitude exceeds
\* m0 or more than 10 minutes have elapsed since t0 (t1 - t0 > 10
\* minutes); otherwise it is suppressed and the remembered (t0, m0) is
\* unchanged; a notified spike is remembered as (t1, its magnitude).
C25_CooldownMoreThan ==
    [][ (/\ RepeatVisit
         /\ LatestTime(shares[vdet'.code].graph)
              # Some(vdet.prev_noti[vdet'.code].time))
        => LET prev == vdet.prev_noti[vdet'.code]
               qs == shares[vdet'.code].graph
           IN IF \/ FracGt(ScaleOf(qs), prev.scale)
                 \/ qs[Len(qs)].time - prev.time > CoolDown
              THEN /\ notes'.fired
                   /\ vdet'.prev_noti[vdet'.code]
                        = [time |-> qs[Len(qs)].time, scale |-> ScaleOf(qs)]
              ELSE ~notes'.fired /\ vdet'.prev_noti = vdet.prev_noti ]_vars

\* C25 witness: the detector has just suppressed a spike whose tick is
\* exactly 10 minutes after the notified one and whose magnitude does not
\* exceed the notified one.
C25_Witness ==
    /\ notes.spike
    /\ ~notes.fired
    /\ notes.seen
    /\ vdet.code = TheStock
    /\ TheStock \in DOMAIN vdet.prev_noti
    /\ LatestTime(shares[TheStock].graph)
         = Some(vdet.prev_noti[TheStock].time + CoolDown)

(***************************************************************************)
(* Properties of format_value.                                             *)
(***************************************************************************)
\* The digits of n >= 0, least significant first.
RECURSIVE DigitsRev(_)
DigitsRev(n) ==
    IF n < 10 THEN <<DigitChar(n)>>
    ELSE <<DigitChar(n % 10)>> \o DigitsRev(n \div 10)

\* The sequence in reverse.
Reverse(seq) == [i \in 1..Len(seq) |-> seq[Len(seq) + 1 - i]]

\* The digits, given least significant first, with a comma after every
\* group of three that has a digit after it.
RECURSIVE GroupRev(_)
GroupRev(rev) ==
    IF Len(rev) <= 3 THEN rev
    ELSE SubSeq(rev, 1, 3) \o <<",">> \o GroupRev(SubSeq(rev, 4, Len(rev)))

\* v / 10^r as the claim writes it, for v >= 0: the integer part grouped
\* by three from the right, then, if r > 0, a point and r digits.
Written(v, r) ==
    LET rev == DigitsRev(v)
        padded == rev \o [i \in 1..(r + 1 - Len(rev)) |-> "0"]
        int == Reverse(GroupRev(SubSeq(padded, r + 1, Len(padded))))
    IN IF r > 0 THEN int \o <<".">> \o Reverse(SubSeq(padded, 1, r)) ELSE int

\* C26 as claimed: for every value v >= 0 and radix r >= 0,
\* format_value(v, r) is the integer part of v / 10^r with a comma between
\* every group of three digits counted from the right, followed, when
\* r > 0, by '.' and exactly r zero-padded fractional digits.
C26_FormatNonNegative ==
    (fmt.pc = "done" /\ fmt.val >= 0)
      => (fmt.out.kind = "ok" /\ fmt.out.s = Written(fmt.val, fmt.radix))

\* C26 amended: the same for every value v >= 0 and every radix
\* 0 <= r <= 18 (10^r within i64 range).
C26_FormatRadixInRange ==
    (fmt.pc = "done" /\ fmt.val >= 0 /\ fmt.radix <= BaseExp)
      => (fmt.out.kind = "ok" /\ fmt.out.s = Written(fmt.val, fmt.radix))

\* C26 witness: format_value(900604301, 2) has returned "9,006,043.01".
C26_Witness ==
    /\ fmt.pc = "done"
    /\ fmt.val = 900604301
    /\ fmt.radix = 2
    /\ fmt.out.s = <<"9", ",", "0", "0", "6", ",", "0", "4", "3", ".", "0", "1">>

\* C27: for every negative value v and radix r, format_value(v, r) equals
\* "-" followed by format_value(-v, r): negative values get the thousands
\* separators of their absolute value.
C27_NegativeLikePositive ==
    (fmt.pc = "done" /\ fmt.val < 0 /\ fmt.radix <= BaseExp)
      => fmt.out.s
           = <<"-">> \o FormatValue(0 - fmt.val, fmt.radix, fmt.build).s

(***************************************************************************)
(* Properties of the backfill loop of update_market.                       *)
(***************************************************************************)
\* C28: when the snapshot fetch for a code fails in a Poller cycle, the
\* Poller skips that code for the rest of the cycle: no request to the
\* Quote Source, history pages included, is in flight for a code whose
\* snapshot fetch failed in this cycle.
C28_SkippedAfterSnapshotError ==
    poller.pc = "bf_fetch" => poller.fetched # None

\* The step that issues a history request.
HistoryRequested == poller.pc = "bf" /\ poller'.pc = "bf_fetch"

\* The step after a last page: the date goes one day back.
RolledBack == poller.pc = "bf_len" /\ poller.is_last /\ poller' # poller

\* C29 as claimed: the backfill loop issues no further history fetch once
\* the depth has reached the target or once the maximum of MaxTimeJump (10)
\* date rollbacks has been performed, and never performs more than
\* MaxTimeJump rollbacks for one instrument in one cycle.
C29_AtMostMaxRollbacks ==
    [][ /\ HistoryRequested => /\ poller.graph_len < poller.min_graph_len
                               /\ poller.time_jump_cnt < MaxTimeJump
        /\ RolledBack => poller.time_jump_cnt < MaxTimeJump ]_vars

\* C29 amended: the backfill loop issues no further history fetch once a
\* fetched page has left the Graph at the target depth or once more than
\* MaxTimeJump (10) date rollbacks have been performed: it fetches the
\* current date and at most MaxTimeJump earlier ones, and never performs
\* more than MaxTimeJump + 1 rollbacks for one instrument in one cycle,
\* the last of which ends the loop.
C29_AtMostMaxEarlierDates ==
    [][ /\ HistoryRequested => /\ poller.graph_len < poller.min_graph_len
                               /\ poller.time_jump_cnt <= MaxTimeJump
        /\ (/\ poller.pc = "bf_len" /\ poller' # poller
            /\ ShareGraphLen(shares, poller.code) >= poller.min_graph_len)
           => poller'.pc # "bf"
        /\ RolledBack => /\ poller.time_jump_cnt <= MaxTimeJump
                         /\ poller.time_jump_cnt = MaxTimeJump
                              => poller'.pc # "bf" ]_vars

\* C29 witness: a history request is in flight for the earliest date, after
\* MaxTimeJump rollbacks.
C29_Witness ==
    /\ poller.pc = "bf_fetch"
    /\ poller.time_jump_cnt = MaxTimeJump
    /\ poller.graph_len < poller.min_graph_len

\* The positions of the backfill loop.
BackfillPcs == {"bf", "bf_fetch", "bf_len"}

\* The step in which a history fetch fails.
HistoryFailed == poller.pc = "bf_fetch" /\ poller'.pc \notin {"bf_fetch", "bf_len"}

SendStep == poller.pc = "send" /\ poller' # poller

\* C31: a threshold reaches send_alarm only through the Poller's removal
\* step, after which it is absent from the registry; the send step, whether
\* the post succeeds or fails, leaves the registry alone and is taken once:
\* after a failed post the Poller goes on to the write-back, not back to the
\* check, the removal or the send.
C31_RemovedBeforeNotified ==
    [][ /\ (poller'.pc = "send" /\ poller.pc # "send") =>
             /\ poller.pc = "remove"
             /\ poller'.executed = poller.executed
             /\ \A t \in Elems(poller.executed) :
                  t \notin Elems(AlarmsOf(alarms', poller.code))
        /\ SendStep =>
             /\ alarms' = alarms
             /\ poller'.pc = "stock_write"
             /\ poller'.delivered \in Deliveries
             /\ \A t \in Prices :
                  fireCount'[t] = fireCount[t]
                                  + (IF t \in Elems(poller.executed) THEN 1 ELSE 0)
        /\ (poller.delivered = "err" /\ poller' # poller) =>
             /\ alarms' = alarms
             /\ fireCount' = fireCount
             /\ poller'.pc \notin {"check", "remove", "send", "stock_write"} ]_vars

\* C31 witness: the post of a fired threshold has failed and the threshold
\* is not in the registry.
C31_Witness ==
    /\ poller.pc = "stock_write"
    /\ poller.delivered = "err"
    /\ poller.executed # <<>>
    /\ \A t \in Elems(poller.executed) :
         t \notin Elems(AlarmsOf(alarms, poller.code))

\* The state-change detector visits one code / ends its cycle.
SDVisitStep == sdet.pc = "visit" /\ sdet'.pc = "visit" /\ sdet' # sdet
SDSendStep == sdet.pc = "visit" /\ sdet'.pc = "top"

\* C32 as claimed: the title of a state-change notification is the state
\* read for the instrument the cycle visited last.
C32_TitleOfLastProcessed ==
    [][ (SDSendStep /\ sdet.alarms # <<>>
                    /\ sdet.code \in DOMAIN sdet.prev_states) =>
          notes'.title = sdet.prev_states[sdet.code] ]_vars

\* C32 amended: the title is the state of the instrument visited last among
\* those whose transition the cycle observed: a visit that adds a line sets
\* the title to the state it read, any other visit leaves it, and the
\* notification carries it.
C32_TitleOfLastTransition ==
    [][ /\ SDVisitStep =>
             IF Len(sdet'.alarms) > Len(sdet.alarms)
             THEN sdet'.rep_state = sdet'.prev_states[sdet'.code]
             ELSE sdet'.rep_state = sdet.rep_state
        /\ (SDSendStep /\ sdet.alarms # <<>>) =>
             /\ notes'.title = sdet.rep_state
             /\ notes'.sent = notes.sent + 1 ]_vars

\* C32 witness: a notification has been sent whose title is not the state
\* read for the instrument visited last, which had not moved.
C32_Witness ==
    /\ sdet.pc = "top"
    /\ notes.sent = 1
    /\ sdet.alarms # <<>>
    /\ sdet.todo = {}
    /\ sdet.code \in DOMAIN sdet.prev_states
    /\ sdet.code \notin notes.moved
    /\ sdet.prev_states[sdet.code] # notes.title
    /\ notes.title = sdet.rep_state

\* The step of notify_change_rate that visits a stock whose state is not
\* Open.
ClosedVisit ==
    /\ RDVisited
    /\ MarketContains(shares, rdet'.code)
    /\ shares[rdet'.code].kind = "Stock"
    /\ shares[rdet'.code].state # "OPEN"

\* C33: the visit of a stock that is not Open sends nothing and leaves every
\* band as it is, whatever the change rate; a visit that moves a band (as
\* every visit that sends does) has read the stock in Open state.
C33_NoCheckOutsideOpen ==
    [][ /\ ClosedVisit =>
             /\ ~notes'.fired
             /\ rdet'.rate_limits = rdet.rate_limits
        /\ (RDVisited /\ rdet'.rate_limits # rdet.rate_limits) =>
             /\ MarketContains(shares, rdet'.code)
             /\ shares[rdet'.code].kind = "Stock"
             /\ shares[rdet'.code].state = "OPEN"
             /\ rdet'.prev_states[rdet'.code] = "OPEN" ]_vars

\* C33 witness: the detector has just visited the stock, which is not Open
\* and whose change rate lies above its band, and has sent nothing.
C33_Witness ==
    /\ rdet.pc = "visit"
    /\ rdet.code = TheStock
    /\ TheStock \notin rdet.todo
    /\ MarketContains(shares, TheStock)
    /\ shares[TheStock].state # "OPEN"
    /\ TheStock \in DOMAIN rdet.prev_states
    /\ rdet.prev_states[TheStock] = shares[TheStock].state
    /\ TheStock \in DOMAIN rdet.rate_limits
    /\ shares[TheStock].change_rate > rdet.rate_limits[TheStock]
    /\ ~notes.fired

\* The step of notify_change_rate that visits, in Open state, a stock it
\* has neither a remembered state nor a band for.
FirstSeenOpen ==
    /\ RDVisited
    /\ MarketContains(shares, rdet'.code)
    /\ shares[rdet'.code].kind = "Stock"
    /\ shares[rdet'.code].state = "OPEN"
    /\ rdet'.code \notin DOMAIN rdet.prev_states
    /\ rdet'.code \notin DOMAIN rdet.rate_limits

\* C34: the first visit of a stock that is already Open makes U the change
\* rate rounded to the nearest multiple of range, plus range, and sends
\* nothing.
C34_LazyBandInit ==
    [][ FirstSeenOpen =>
          /\ rdet'.rate_limits[rdet'.code]
               = NearestMultiple(shares[rdet'.code].change_rate) + LimitRange
          /\ rdet'.prev_states[rdet'.code] = "OPEN"
          /\ ~notes'.fired ]_vars

\* C34 witness: the detector has just visited the Open stock at a change
\* rate of range or more, has never sent anything for it, and its band is
\* the one computed from the rate.
C34_Witness ==
    /\ rdet.pc = "visit"
    /\ rdet.code = TheStock
    /\ TheStock \notin rdet.todo
    /\ MarketContains(shares, TheStock)
    /\ shares[TheStock].state = "OPEN"
    /\ shares[TheStock].change_rate >= LimitRange
    /\ TheStock \in DOMAIN rdet.rate_limits
    /\ rdet.rate_limits[TheStock]
         = NearestMultiple(shares[TheStock].change_rate) + LimitRange
    /\ ~notes.fired
    /\ ~notes.held
    /\ ~notes.opened

\* The Poller's loop top reads a clock outside Monday to Friday, 8 to 17
\* o'clock (17 excluded), with no stop message waiting.
OffHoursTop ==
    /\ poller.pc = "loop_top"
    /\ ~quit
    /\ poller' # poller
    /\ ~(/\ poller'.now[1] \in 1..5
         /\ poller'.now[2] >= 8
         /\ poller'.now[2] < 17)

\* C35: a cycle that starts outside the market-hours window leaves the
\* Market, the registry and both locks as they are, issues no request (no
\* code is listed, nothing is in flight) and is back at the loop top after
\* its sleep; only a cycle that starts inside the window lists the codes.
C35_OffHoursOnlySleeps ==
    [][ /\ OffHoursTop =>
             /\ poller'.pc = "loop_top"
             /\ poller'.todo = poller.todo
             /\ poller'.cycle = poller.cycle
             /\ poller'.fetched = None
             /\ ~poller'.prev_on_work
             /\ shares' = shares
             /\ alarms' = alarms
             /\ mlock' = mlock
             /\ alock' = alock
        /\ (poller.pc = "loop_top" /\ poller'.pc = "list") =>
             /\ poller'.now[1] \in 1..5
             /\ poller'.now[2] >= 8
             /\ poller'.now[2] < 17 ]_vars

\* C35 witness: after a cycle inside the window, a cycle has started on a
\* working day at 17 o'clock and the Poller is back at the loop top.
C35_Witness ==
    /\ poller.pc = "loop_top"
    /\ poller.cycle > 0
    /\ poller.now = <<5, 17>>
    /\ ~poller.prev_on_work
    /\ ~quit

(***************************************************************************)
(* Properties of Graph::avg_trading_vol_move.                              *)
(***************************************************************************)
\* C36: avg_trading_vol_move(offset, cnt) is none iff cnt = 0 or the Graph
\* holds fewer than offset + cnt ticks; otherwise it is the sum of the
\* volume deltas of the cnt ticks at positions offset .. offset + cnt - 1
\* counted back from the most recent tick (0 = most recent), divided by cnt.
C36_MeanOfWindow ==
    avg.pc = "done" =>
      LET n == Len(quotes)
      IN /\ (avg.out = None) <=> (avg.cnt = 0 \/ n < avg.offset + avg.cnt)
         /\ avg.out # None =>
              avg.out[1].num * avg.cnt
                = avg.out[1].den * SumOf(quotes, n - avg.offset - avg.cnt + 1,
                                         n - avg.offset)

\* C36 witness: the mean of the two ticks before the most recent one of a
\* Graph of four ticks, whose oldest and most recent volume deltas are
\* larger than those in the window.
C36_Witness ==
    /\ avg.pc = "done"
    /\ avg.offset = 1
    /\ avg.cnt = 2
    /\ Len(quotes) = 4
    /\ quotes[1].trading_vol_move = 3
    /\ quotes[4].trading_vol_move = 3
    /\ avg.out = Some([num |-> 1, den |-> 2])

(***************************************************************************)
(* Properties of the registry and the Market under the whole system.       *)
(***************************************************************************)
\* C37: in every reachable state of the Poller with the set_alarm and
\* off_alarm commands the registry holds no empty alarm set: the codes it
\* lists are the codes that have at least one threshold.
C37_NoEmptyAlarmSet ==
    /\ \A code \in DOMAIN alarms : Len(alarms[code]) >= 1
    /\ AlarmCodes(alarms) = {code \in StockCodes : AlarmsOf(alarms, code) # <<>>}

\* C37 witness: the Poller has removed the only threshold of the stock,
\* which a command had set, and the registry lists no code.
C37_Witness ==
    /\ poller.pc = "send"
    /\ poller.executed # <<>>
    /\ \E t \in Prices : setCount[t] > 0
    /\ AlarmCodes(alarms) = {}

\* C38: the kind of a Market entry is the same after every call that leaves
\* the entry in the Market, whichever of add_or_update_index,
\* add_or_update_stock and the Graph updates is called on its code and with
\* whichever kind (as a write-back with a kind read earlier does).
C38_KindImmutable ==
    [][ \A code \in DOMAIN shares \cap DOMAIN shares' :
          shares'[code].kind = shares[code].kind ]_vars

\* C38 witness: add_or_update_stock has just overwritten the snapshot of an
\* entry that is an Index.
C38_Witness ==
    /\ lastOp.op = "add_or_update_stock"
    /\ lastOp.code \in DOMAIN shares
    /\ shares[lastOp.code].kind = "Index"
    /\ shares[lastOp.code].name = lastOp.arg.name

(***************************************************************************)
(* Properties of the locking.                                              *)
(***************************************************************************)
LkHolders(l) == l.r \cup (IF l.w = "" THEN {} ELSE {l.w})

\* The tasks a waiting task waits for: the holders of the lock it asked for
\* and the tasks queued before it.
LkWaitsFor(t) ==
    IF ~lk.tasks[t].wait THEN {}
    ELSE LET l == lk.locks[LkOp(t)[2]]
             at == CHOOSE i \in 1..Len(l.q) : l.q[i][1] = t
         IN LkHolders(l) \cup {l.q[i][1] : i \in 1..(at - 1)}

\* The tasks reached from S along at most n waits.
RECURSIVE LkBlockers(_, _)
LkBlockers(S, n) ==
    IF n = 0 THEN S
    ELSE LkBlockers(S \cup UNION {LkWaitsFor(u) : u \in S}, n - 1)

LkNoWaitCycle ==
    \A t \in LkTasks :
        t \notin LkBlockers(LkWaitsFor(t), Cardinality(LkTasks))

\* C39: no set of tasks waits on each other's locks in a cycle, and every
\* task that waits for the Market lock or the registry lock obtains it,
\* given that the tasks are scheduled and their fetches and posts return.
C39_DeadlockFree ==
    /\ []LkNoWaitCycle
    /\ \A t \in LkTasks : lk.tasks[t].wait ~> ~lk.tasks[t].wait

\* C39 witness: show_alarms holds the registry read guard and waits for the
\* Market, which the Poller holds for writing across a history fetch, while
\* set_alarm waits for the registry and another task waits for the Market.
C39_Witness ==
    /\ "show_alarms" \in lk.locks["A"].r
    /\ lk.tasks["show_alarms"].wait
    /\ lk.locks["M"].w = "update_market"
    /\ LkAt("update_market", "await")
    /\ lk.tasks["set_alarm"].wait
    /\ lk.tasks["show_stock"].wait

\* ---------------------------------------------------------------------
\* Fetch order of the snapshots: the Poller against the add commands
\* ---------------------------------------------------------------------

\* The Quote Source numbers its answers: a snapshot with a larger number
\* was fetched later.  At most MaxFetches snapshots are fetched.
MaxFetches == 4

SnCodes == {"KOSPI", TheStock}
SnCmds == {"show_index", "show_stock"}

\* finance.rs:23 and 112-118: the instrument a command is about.
SnCodeOf(cmd) == IF cmd = "show_stock" THEN TheStock ELSE "KOSPI"

SnAbsent == [seq |-> 0, by |-> "absent"]
SnSeeded == [seq |-> 0, by |-> "main"]

\* A bug variant of the upsert: the stored snapshot is kept when it was
\* fetched later than the written one.
SnUpsertKeepNewest(stored, s) == IF stored.seq > s.seq THEN stored ELSE s

\* market.rs:45-96, add_or_update_index / add_or_update_stock: every
\* snapshot field of the share is overwritten, or the share is inserted.
SnUpsert(stored, s) == s

SnFrame == <<graphVars, alarms, lastOp, shares, mlock, alock, quit, poller,
             setTask, offTask, cmdsLeft, histVars, main, tasks, sdet, rdet,
             vdet, fmt, avg, lk, notes>>

\* main.rs:105-119: the Market starts with the index of my_index.txt.
SnInit ==
    /\ quotes = <<>>
    /\ seenTimes = {}
    /\ lastQuote = NoQuote
    /\ lastFound = FALSE
    /\ alarms = <<>>
    /\ lastOp = NoOp
    /\ shares = MarketNew
    /\ mlock = "free"
    /\ alock = "free"
    /\ quit = FALSE
    /\ poller = PollerStart
    /\ setTask = Idle
    /\ offTask = Idle
    /\ cmdsLeft = 0
    /\ setCount = ZeroCount
    /\ fireCount = ZeroCount
    /\ removed = {}
    /\ lostInFlight = {}
    /\ offRemoved = {}
    /\ main = MainOff
    /\ tasks = <<>>
    /\ sdet = SDetOff
    /\ rdet = RDetOff
    /\ vdet = VDetOff
    /\ notes = NoNotes
    /\ fmt = FmtOff
    /\ avg = AvgOff
    /\ lk = LkOff
    /\ sn = [seq |-> 0,
             stored |-> [c \in SnCodes |->
                           IF c = "KOSPI" THEN SnSeeded ELSE SnAbsent],
             over |-> [c \in SnCodes |-> SnAbsent],
             poller |-> [pc |-> "idle", todo |-> {}, code |-> "", got |-> 0],
             cmds |-> [cmd \in SnCmds |-> [pc |-> "idle", got |-> 0]]]

SnContains(c) == sn.stored[c] # SnAbsent

\* trader.rs:79-87: the cycle's code list, read under the read guard.
SnList ==
    /\ sn.poller.pc = "idle"
    /\ sn' = [sn EXCEPT !.poller = [pc |-> "next",
                                    todo |-> {c \in SnCodes : SnContains(c)},
                                    code |-> "", got |-> 0]]
    /\ UNCHANGED SnFrame

\* trader.rs:89-93, 104-106 and 158: the next code's snapshot is fetched,
\* outside any guard; a failed fetch skips the code.
SnPollerFetch ==
    /\ sn.poller.pc = "next"
    /\ \E c \in sn.poller.todo :
         \/ /\ sn.seq < MaxFetches
            /\ sn' = [sn EXCEPT !.seq = @ + 1,
                                !.poller.pc = "write",
                                !.poller.code = c,
                                !.poller.got = sn.seq + 1]
         \/ sn' = [sn EXCEPT !.poller.todo = @ \ {c}]
    /\ UNCHANGED SnFrame

\* trader.rs:95-99 and 152-156: the write-back under the write guard, after
\* the existence re-check.
SnPollerWrite ==
    /\ sn.poller.pc = "write"
    /\ LET c == sn.poller.code
           s == [seq |-> sn.poller.got, by |-> "update_market"]
       IN sn' = [sn EXCEPT
                   !.stored[c] = IF SnContains(c) THEN SnUpsert(@, s) ELSE @,
                   !.over[c] = IF SnContains(c) THEN sn.stored[c] ELSE @,
                   !.poller.pc = "next",
                   !.poller.todo = @ \ {c},
                   !.poller.code = "",
                   !.poller.got = 0]
    /\ UNCHANGED SnFrame

\* trader.rs:89 and 222: the code list is used up and the cycle ends.
SnCycleEnd ==
    /\ sn.poller.pc = "next"
    /\ sn.poller.todo = {}
    /\ sn' = [sn EXCEPT !.poller.pc = "idle"]
    /\ UNCHANGED SnFrame

\* finance.rs:26, 120 and 76-80, 169-173: the command fetches the
\* snapshot, shows it and waits for the reaction.
SnShowFetchBy(cmd) ==
    /\ sn.cmds[cmd].pc = "idle"
    /\ sn.seq < MaxFetches
    /\ sn' = [sn EXCEPT !.seq = @ + 1,
                        !.cmds[cmd] = [pc |-> "wait", got |-> sn.seq + 1]]
    /\ UNCHANGED SnFrame

\* finance.rs:81-88 and 174-181: the add reaction writes the snapshot that
\* was fetched before the wait, under the write guard.
SnShowAddBy(cmd) ==
    /\ sn.cmds[cmd].pc = "wait"
    /\ LET c == SnCodeOf(cmd)
           s == [seq |-> sn.cmds[cmd].got, by |-> cmd]
       IN sn' = [sn EXCEPT !.stored[c] = SnUpsert(@, s),
                           !.over[c] = sn.stored[c],
                           !.cmds[cmd] = [pc |-> "idle", got |-> 0]]
    /\ UNCHANGED SnFrame

\* finance.rs:89-91 and 182-184: the delete reaction.
SnShowDelBy(cmd) ==
    /\ sn.cmds[cmd].pc = "wait"
    /\ LET c == SnCodeOf(cmd)
       IN sn' = [sn EXCEPT !.stored[c] = SnAbsent,
                           !.over[c] = SnAbsent,
                           !.cmds[cmd] = [pc |-> "idle", got |-> 0]]
    /\ UNCHANGED SnFrame

\* finance.rs:76-81 and 169-174: no reaction within the 30 seconds.
SnShowTimeoutBy(cmd) ==
    /\ sn.cmds[cmd].pc = "wait"
    /\ sn' = [sn EXCEPT !.cmds[cmd] = [pc |-> "idle", got |-> 0]]
    /\ UNCHANGED SnFrame

SnShowFetch == \E cmd \in SnCmds : SnShowFetchBy(cmd)
SnShowAdd == \E cmd \in SnCmds : SnShowAddBy(cmd)
SnShowDel == \E cmd \in SnCmds : SnShowDelBy(cmd)
SnShowTimeout == \E cmd \in SnCmds : SnShowTimeoutBy(cmd)

SnNext ==
    \/ SnList
    \/ SnPollerFetch
    \/ SnPollerWrite
    \/ SnCycleEnd
    \/ SnShowFetch
    \/ SnShowAdd
    \/ SnShowDel
    \/ SnShowTimeout

SnapSpec == SnInit /\ [][SnNext]_vars

\* C40 as stated: the stored snapshot of an instrument never goes back in
\* time; under every interleaving of the Poller and the add commands a
\* snapshot fetched earlier never overwrites a stored snapshot that was
\* fetched later.
C40_NeverBackInTime ==
    [][\A c \in SnCodes :
         (sn.stored[c] # SnAbsent /\ sn'.stored[c] # SnAbsent)
           => sn'.stored[c].seq >= sn.stored[c].seq]_vars

\* C40, amended: the most recent write wins.  A write of the Poller that
\* finds the code, and every add of a command, leaves the writer's own
\* snapshot in the Market whatever was stored; and a snapshot fetched
\* earlier overwrites one fetched later only when an add command made one of
\* the two writes, never between two writes of the Poller.
C40_LastWriteWins ==
    [][/\ (SnPollerWrite /\ SnContains(sn.poller.code))
            => sn'.stored[sn.poller.code]
                 = [seq |-> sn.poller.got, by |-> "update_market"]
       /\ \A cmd \in SnCmds :
            SnShowAddBy(cmd)
              => sn'.stored[SnCodeOf(cmd)]
                   = [seq |-> sn.cmds[cmd].got, by |-> cmd]
       /\ \A c \in SnCodes :
            (/\ sn.stored[c] # SnAbsent
             /\ sn'.stored[c] # SnAbsent
             /\ sn'.stored[c].seq < sn.stored[c].seq)
              => \/ sn.stored[c].by \in SnCmds
                 \/ sn'.stored[c].by \in SnCmds]_vars

\* The add of show_index has just put a snapshot over one that the Poller
\* fetched later and wrote earlier.
C40_Witness ==
    /\ sn.stored["KOSPI"].by = "show_index"
    /\ sn.over["KOSPI"].by = "update_market"
    /\ sn.stored["KOSPI"].seq < sn.over["KOSPI"].seq

====
